---- MODULE Spec2Model ----
(***************************************************************************)
(* A model of the opentaxjs rule engine: the symbol registry, the          *)
(* expression evaluator and its built-in functions, the conditional        *)
(* evaluator, the operation registry and the rule flow evaluator.          *)
(*                                                                         *)
(* JavaScript numbers are modelled as exact rationals n/d in lowest terms  *)
(* (d > 0); floating point rounding is outside the model.  JavaScript      *)
(* objects are modelled as sequences of [name, value] entries so that the  *)
(* insertion order observed by Object.entries is kept.                     *)
(***************************************************************************)
EXTENDS Integers, Sequences, FiniteSets, TLC

----------------------------------------------------------------------------
(* Values: number | boolean | string, plus undefined, null and thrown errors *)

Abs(x) == IF x < 0 THEN -x ELSE x

RECURSIVE GCD(_, _)
GCD(a, b) == IF b = 0 THEN a ELSE GCD(b, a % b)

Rat(n, d) ==
  LET s == IF d < 0 THEN -1 ELSE 1
      g == GCD(Abs(n), Abs(d))
  IN  [k |-> "num", n |-> (s * n) \div g, d |-> (s * d) \div g]

Num(n) == [k |-> "num", n |-> n, d |-> 1]
Bool(b) == [k |-> "bool", b |-> b]
Str(s) == [k |-> "str", s |-> s]
Undefined == [k |-> "undefined"]
Null == [k |-> "null"]
Err(cls, msg) == [k |-> "err", cls |-> cls, msg |-> msg]
\* arrays and objects that a document may leave out are carried boxed, so
\* that every optional field holds a record
Arr(seq) == [k |-> "array", a |-> seq]
Obj(entries) == [k |-> "object", e |-> entries]

IsNum(v) == v.k = "num"
IsBool(v) == v.k = "bool"
IsStr(v) == v.k = "str"
IsErr(v) == v.k = "err"

\* typeof v
TypeOf(v) ==
  CASE v.k = "num" -> "number"
    [] v.k = "bool" -> "boolean"
    [] v.k = "str" -> "string"
    [] v.k = "undefined" -> "undefined"
    [] OTHER -> "object"

NumAdd(a, b) == Rat(a.n * b.d + b.n * a.d, a.d * b.d)
NumSub(a, b) == Rat(a.n * b.d - b.n * a.d, a.d * b.d)
NumMul(a, b) == Rat(a.n * b.n, a.d * b.d)
NumDiv(a, b) == Rat(a.n * b.d, a.d * b.n)
NumLt(a, b) == a.n * b.d < b.n * a.d
NumLe(a, b) == a.n * b.d <= b.n * a.d
NumMin(a, b) == IF NumLe(a, b) THEN a ELSE b
NumMax(a, b) == IF NumLe(a, b) THEN b ELSE a
NumAbs(a) == [k |-> "num", n |-> Abs(a.n), d |-> a.d]

----------------------------------------------------------------------------
(* Objects as ordered entry lists *)

EmptyMap == << >>
Entry(name, value) == [name |-> name, value |-> value]
Keys(m) == {m[i].name : i \in 1..Len(m)}
Has(m, name) == \E i \in 1..Len(m) : m[i].name = name
Get(m, name) ==
  IF Has(m, name)
    THEN m[CHOOSE i \in 1..Len(m) : m[i].name = name].value
    ELSE Undefined
Put(m, name, value) ==
  IF Has(m, name)
    THEN [i \in 1..Len(m) |->
            IF m[i].name = name THEN Entry(name, value) ELSE m[i]]
    ELSE Append(m, Entry(name, value))

\* index of the first element of a sequence of results that is an error, 0 if none
FirstErr(vals) ==
  IF \E i \in 1..Len(vals) : IsErr(vals[i])
    THEN CHOOSE i \in 1..Len(vals) :
           IsErr(vals[i]) /\ \A j \in 1..(i - 1) : ~IsErr(vals[j])
    ELSE 0

----------------------------------------------------------------------------
(* Built-in symbols (expression/builtins.ts) *)

\* Number.MAX_SAFE_INTEGER (2^53 - 1), scaled to fit the model's integers:
\* it stays above every amount, bracket bound and product the model forms.
MAX_SAFE_INTEGER == 1000000

BUILTIN_FUNCTION_NAMES == <<"diff", "sum", "max", "min", "round", "lookup">>

BUILTIN_CONSTANTS == <<Entry("MAX_TAXABLE_INCOME", Num(MAX_SAFE_INTEGER))>>

BUILTIN_OUTPUT_VARIABLES == <<Entry("liability", Num(0))>>

IsBuiltinFunction(name) ==
  \E i \in 1..Len(BUILTIN_FUNCTION_NAMES) : BUILTIN_FUNCTION_NAMES[i] = name

----------------------------------------------------------------------------
(* Symbol registry (symbol/registry.ts) *)

SymbolInfo(symbolType, source, valueType) ==
  [symbolType |-> symbolType, source |-> source,
   valueType |-> IF symbolType = "function" THEN "undefined" ELSE valueType]

\* an addSymbol that overwrites whatever is registered under the name
addSymbolOverwriting(reg, name, symbolType, source, valueType) ==
  [ok |-> TRUE,
   reg |-> Put(reg, name, SymbolInfo(symbolType, source, valueType)),
   err |-> ""]

\* SymbolRegistry.addSymbol: [ok, reg]; on a conflict the registry is unchanged
addSymbol(reg, name, symbolType, source, valueType) ==
  LET existing == Get(reg, name)
      existingIsFunction == existing.symbolType = "function"
      newIsFunction == symbolType = "function"
  IN  IF Has(reg, name) /\ existingIsFunction # newIsFunction
        THEN [ok |-> FALSE, reg |-> reg, err |-> "Symbol conflict"]
      ELSE IF Has(reg, name) /\ existing.source = "builtin"
                /\ existing.symbolType = "function"
        THEN [ok |-> FALSE, reg |-> reg,
              err |-> "Cannot redefine built-in function"]
      ELSE [ok |-> TRUE,
            reg |-> Put(reg, name, SymbolInfo(symbolType, source, valueType)),
            err |-> ""]

\* a run of addSymbol calls over the entries of one object, stopping at the
\* first call that throws
RECURSIVE addSymbols(_, _, _, _, _)
addSymbols(reg, entries, i, symbolType, source) ==
  IF i > Len(entries)
    THEN [ok |-> TRUE, reg |-> reg, err |-> ""]
    ELSE LET Added(r) ==
               IF r.ok
                 THEN addSymbols(r.reg, entries, i + 1, symbolType, source)
                 ELSE r
         IN  Added(addSymbol(reg, entries[i].name, symbolType, source,
                             TypeOf(entries[i].value)))

\* new SymbolRegistry(builtins)
NewSymbolRegistry ==
  LET fns == [i \in 1..Len(BUILTIN_FUNCTION_NAMES) |->
                Entry(BUILTIN_FUNCTION_NAMES[i], Undefined)]
      r1 == addSymbols(EmptyMap, fns, 1, "function", "builtin")
      r2 == addSymbols(r1.reg, BUILTIN_CONSTANTS, 1,
                       "constant_variable", "builtin")
      r3 == addSymbols(r2.reg, BUILTIN_OUTPUT_VARIABLES, 1,
                       "calculated_variable", "builtin")
  IN  r3.reg

clearDynamicSymbols(reg) ==
  SelectSeq(reg, LAMBDA e : e.value.source # "context")

\* ExpressionEvaluator.buildDynamicSymbolRegistry
buildDynamicSymbolRegistry(reg, context) ==
  LET Calculated(r2) ==
        IF ~r2.ok THEN r2
        ELSE addSymbols(r2.reg, context.calculated, 1,
                        "calculated_variable", "context")
      Constants(r1) ==
        IF ~r1.ok THEN r1
        ELSE Calculated(addSymbols(r1.reg, context.constants, 1,
                                   "constant_variable", "context"))
  IN  Constants(addSymbols(reg, context.inputs, 1, "input_variable", "context"))

----------------------------------------------------------------------------
(* Expression AST (expression/parser.ts node kinds) *)

NumberLiteral(n) == [type |-> "number_literal", value |-> Num(n)]
BooleanLiteral(b) == [type |-> "boolean_literal", value |-> Bool(b)]
StringLiteral(s) == [type |-> "string_literal", value |-> Str(s)]
InputVariable(name) == [type |-> "input_variable", name |-> name]
ConstantVariable(name) == [type |-> "constant_variable", name |-> name]
CalculatedVariable(name) == [type |-> "calculated_variable", name |-> name]
Call(name, parameters) ==
  [type |-> "call", name |-> name, parameters |-> parameters]

ParseError == [type |-> "parse_error"]

\* ExpressionParser.parse on the expression texts the model's rules use;
\* an empty text, an operator and trailing content are parse errors
Parse(text) ==
  CASE text = "$income" -> InputVariable("income")
    [] text = "$senior" -> InputVariable("senior")
    [] text = "$missing" -> InputVariable("missing")
    [] text = "$expenses" -> InputVariable("expenses")
    [] text = "$$exemption" -> ConstantVariable("exemption")
    [] text = "$$MAX_TAXABLE_INCOME" -> ConstantVariable("MAX_TAXABLE_INCOME")
    [] text = "taxable" -> CalculatedVariable("taxable")
    [] text = "liability" -> CalculatedVariable("liability")
    [] text = "relief" -> CalculatedVariable("relief")
    [] text = "senior" -> CalculatedVariable("senior")
    [] text = "$status" -> InputVariable("status")
    [] text = "$x" -> InputVariable("x")
    [] text = "$exemption" -> InputVariable("exemption")
    [] text = "$$x" -> ConstantVariable("x")
    [] text = "$$income" -> ConstantVariable("income")
    [] text = "$$is_active" -> ConstantVariable("is_active")
    [] text = "x" -> CalculatedVariable("x")
    [] text = "income" -> CalculatedVariable("income")
    [] text = "status" -> CalculatedVariable("status")
    [] text = "total" -> CalculatedVariable("total")
    [] text = "MARRIED" -> CalculatedVariable("MARRIED")
    [] text = "SINGLE" -> CalculatedVariable("SINGLE")
    [] text = "max" -> CalculatedVariable("max")
    [] text = "liability(1)" -> Call("liability", <<NumberLiteral(1)>>)
    [] text = "label" -> CalculatedVariable("label")
    [] text = "exemption" -> CalculatedVariable("exemption")
    [] text = "0" -> NumberLiteral(0)
    [] text = "true" -> BooleanLiteral(TRUE)
    [] text = "max(taxable, 0)" ->
         Call("max", <<CalculatedVariable("taxable"), NumberLiteral(0)>>)
    [] text = "diff($income, $$exemption)" ->
         Call("diff", <<InputVariable("income"), ConstantVariable("exemption")>>)
    [] text = "lookup(brackets, $income)" ->
         Call("lookup", <<CalculatedVariable("brackets"), InputVariable("income")>>)
    [] text = "" -> ParseError
    [] text = "taxable + 1" -> ParseError
    [] OTHER -> ParseError

----------------------------------------------------------------------------
(* Built-in functions (expression/builtins.ts) *)

ExprErr(msg) == Err("ExpressionEvaluationError", msg)

RECURSIVE SumSeq(_, _)
SumSeq(numbers, i) ==
  IF i > Len(numbers) THEN Num(0)
  ELSE NumAdd(numbers[i], SumSeq(numbers, i + 1))

RECURSIVE MaxSeq(_, _)
MaxSeq(numbers, i) ==
  IF i = Len(numbers) THEN numbers[i]
  ELSE NumMax(numbers[i], MaxSeq(numbers, i + 1))

RECURSIVE MinSeq(_, _)
MinSeq(numbers, i) ==
  IF i = Len(numbers) THEN numbers[i]
  ELSE NumMin(numbers[i], MinSeq(numbers, i + 1))

RECURSIVE Pow10(_)
Pow10(e) == IF e = 0 THEN 1 ELSE 10 * Pow10(e - 1)

\* Math.round: the nearest integer, halves towards +infinity
MathRound(x) == Num((2 * x.n + x.d) \div (2 * x.d))

\* round callback; decimals is an integer in the model
BuiltinRound(value, decimals) ==
  LET factor == IF decimals.n >= 0 THEN Num(Pow10(decimals.n))
                ELSE Rat(1, Pow10(-decimals.n))
  IN  NumDiv(MathRound(NumMul(value, factor)), factor)

\* the bracket the built-in lookup function stops at, 0 if none
BuiltinLookupIndex(brackets, value) ==
  LET hit(i) == LET max == IF brackets[i].max = Null
                             THEN Num(MAX_SAFE_INTEGER)
                             ELSE brackets[i].max
                IN  NumLe(brackets[i].min, value) /\ NumLe(value, max)
  IN  IF \E i \in 1..Len(brackets) : hit(i)
        THEN CHOOSE i \in 1..Len(brackets) :
               hit(i) /\ \A j \in 1..(i - 1) : ~hit(j)
        ELSE 0

\* lookup callback: a thrown Error is returned as Err("Error", ...)
BuiltinLookup(tableName, value, tables) ==
  IF tables = Undefined
    THEN Err("Error", "Tables context not available for lookup function")
  ELSE IF ~Has(tables.e, tableName)
    THEN Err("Error", "Table not found")
  ELSE LET brackets == Get(tables.e, tableName)
           i == BuiltinLookupIndex(brackets, value)
       IN  IF i = 0 THEN Num(0)
           ELSE LET taxableInBracket == NumSub(value, brackets[i].min)
                    taxInBracket == NumMul(taxableInBracket, brackets[i].rate)
                IN  NumAdd(brackets[i].base_tax, taxInBracket)

IsVariadic(name) == name \in {"sum", "max", "min"}

\* parameter schemas of the fixed-arity functions
Schema(name) ==
  CASE name = "diff" ->
         <<[name |-> "a", type |-> "number", required |-> TRUE],
           [name |-> "b", type |-> "number", required |-> TRUE]>>
    [] name = "round" ->
         <<[name |-> "value", type |-> "number", required |-> TRUE],
           [name |-> "decimals", type |-> "number", required |-> FALSE]>>
    [] name = "lookup" ->
         <<[name |-> "tableName", type |-> "string", required |-> TRUE],
           [name |-> "value", type |-> "number", required |-> TRUE]>>
    [] OTHER -> << >>

\* func.callback(evaluatedParams, {tables}) for validated arguments
Callback(name, args, tables) ==
  CASE name = "diff" -> NumAbs(NumSub(args[1], args[2]))
    [] name = "sum" -> SumSeq(args, 1)
    [] name = "max" -> IF Len(args) = 0 THEN Num(0) ELSE MaxSeq(args, 1)
    [] name = "min" -> IF Len(args) = 0 THEN Num(0) ELSE MinSeq(args, 1)
    [] name = "round" ->
         BuiltinRound(args[1], IF Len(args) >= 2 THEN args[2] ELSE Num(0))
    [] name = "lookup" -> BuiltinLookup(args[1].s, args[2], tables)

\* validateFunctionParameters: "" when the arguments fit the schema
validateFunctionParameters(name, args) ==
  IF IsVariadic(name)
    THEN IF \E i \in 1..Len(args) : TypeOf(args[i]) # "number"
           THEN "parameter must be a number" ELSE ""
    ELSE LET schema == Schema(name)
         IN  IF \E i \in 1..Len(schema) : schema[i].required /\ i > Len(args)
               THEN "missing required parameter"
             ELSE IF \E i \in 1..Len(args) : TypeOf(args[i]) # schema[i].type
               THEN "parameter has the wrong type"
             ELSE ""

----------------------------------------------------------------------------
(* Expression evaluator (expression/evaluator.ts) *)

\* validateIdentifierUsage: TRUE when the usage is accepted
validateIdentifierUsage(reg, name, expectedUsage) ==
  IF ~Has(reg, name) THEN TRUE
  ELSE (Get(reg, name).symbolType = "function") = (expectedUsage = "function")

RECURSIVE evaluateExpression(_, _, _)

evaluateInputVariable(expression, context, reg) ==
  IF ~validateIdentifierUsage(reg, expression.name, "variable")
    THEN ExprErr("Incorrect usage")
  ELSE IF Has(context.inputs, expression.name)
    THEN Get(context.inputs, expression.name)
  ELSE ExprErr("Input variable not found in context")

evaluateConstantVariable(expression, context, reg) ==
  IF ~validateIdentifierUsage(reg, expression.name, "variable")
    THEN ExprErr("Incorrect usage")
  ELSE IF Has(context.constants, expression.name)
    THEN Get(context.constants, expression.name)
  ELSE IF Has(BUILTIN_CONSTANTS, expression.name)
    THEN Get(BUILTIN_CONSTANTS, expression.name)
  ELSE ExprErr("Constant not found in context or built-in constants")

\* a bare name that falls back on the inputs and the constants
evaluateCalculatedVariableAnyDomain(expression, context, reg) ==
  IF ~validateIdentifierUsage(reg, expression.name, "variable")
    THEN ExprErr("Incorrect usage")
  ELSE IF Has(context.calculated, expression.name)
    THEN Get(context.calculated, expression.name)
  ELSE IF Has(BUILTIN_OUTPUT_VARIABLES, expression.name)
    THEN Get(BUILTIN_OUTPUT_VARIABLES, expression.name)
  ELSE IF Has(context.inputs, expression.name)
    THEN Get(context.inputs, expression.name)
  ELSE IF Has(context.constants, expression.name)
    THEN Get(context.constants, expression.name)
  ELSE ExprErr("Calculated variable not found in context or built-in variables")

evaluateCalculatedVariable(expression, context, reg) ==
  IF ~validateIdentifierUsage(reg, expression.name, "variable")
    THEN ExprErr("Incorrect usage")
  ELSE IF Has(context.calculated, expression.name)
    THEN Get(context.calculated, expression.name)
  ELSE IF Has(BUILTIN_OUTPUT_VARIABLES, expression.name)
    THEN Get(BUILTIN_OUTPUT_VARIABLES, expression.name)
  ELSE ExprErr("Calculated variable not found in context or built-in variables")

evaluateCall(expression, context, reg) ==
  LET name == expression.name
      parameters == expression.parameters
      \* vals: the arguments in call order; a parameter beyond the schema of
      \* a fixed-arity function throws when the loop reaches it
      Called(vals) ==
        IF FirstErr(vals) # 0
          THEN IF vals[FirstErr(vals)].msg = "received too many parameters"
                    /\ ~IsVariadic(name) /\ FirstErr(vals) > Len(Schema(name))
                 THEN vals[FirstErr(vals)]
                 ELSE ExprErr("Failed to evaluate parameter")
        ELSE IF validateFunctionParameters(name, vals) # ""
          THEN ExprErr(validateFunctionParameters(name, vals))
        ELSE Callback(name, vals, context.tables)
  IN  IF ~validateIdentifierUsage(reg, name, "function")
        THEN ExprErr("Incorrect usage")
      ELSE IF ~IsBuiltinFunction(name)
        THEN ExprErr("Unknown function")
      ELSE Called([i \in 1..Len(parameters) |->
                     IF ~IsVariadic(name) /\ i > Len(Schema(name))
                       THEN ExprErr("received too many parameters")
                       ELSE evaluateExpression(parameters[i], context, reg)])

evaluateExpression(expression, context, reg) ==
  CASE expression.type \in {"number_literal", "boolean_literal",
                            "string_literal"} -> expression.value
    [] expression.type = "input_variable" ->
         evaluateInputVariable(expression, context, reg)
    [] expression.type = "constant_variable" ->
         evaluateConstantVariable(expression, context, reg)
    [] expression.type = "calculated_variable" ->
         evaluateCalculatedVariable(expression, context, reg)
    [] expression.type = "call" -> evaluateCall(expression, context, reg)

\* ExpressionEvaluator.evaluate on an evaluator whose registry is reg:
\* [v |-> the value or the ExpressionEvaluationError, reg |-> the registry left]
ExpressionEvaluate(expression, context, reg) ==
  LET Evaluated(built, v) ==
        IF IsErr(v) /\ v.cls # "ExpressionEvaluationError"
          THEN [v |-> ExprErr("Evaluation failed"), reg |-> built.reg]
          ELSE [v |-> v, reg |-> built.reg]
      Built(built) ==
        IF ~built.ok
          THEN [v |-> ExprErr("Evaluation failed"), reg |-> built.reg]
          ELSE Evaluated(built,
                         evaluateExpression(expression, context, built.reg))
  IN  IF expression.type = "parse_error"
        THEN [v |-> ExprErr("Evaluation failed"), reg |-> reg]
        ELSE Built(buildDynamicSymbolRegistry(clearDynamicSymbols(reg),
                                              context))

----------------------------------------------------------------------------
(* Conditional evaluator (evaluator/conditional.ts, class ConditionalEvaluator).
   A condition is an object: an entry list keyed by "and" | "or" | "not" or by
   a variable text; a comparison is a record of the six operators, Undefined
   where the operator is absent.  Results are [v, reg]: the boolean or the
   thrown error, and the registry the expression evaluator is left with. *)

RuleErr(msg) == Err("RuleEvaluationError", msg)

NoComparison ==
  [eq |-> Undefined, ne |-> Undefined, lt |-> Undefined, lte |-> Undefined,
   gt |-> Undefined, gte |-> Undefined]

\* the context handed to the expression evaluator: no tables
VariableContext(context) ==
  [inputs |-> context.inputs, constants |-> context.constants,
   calculated |-> context.calculated, tables |-> Undefined]

resolveComparisonValue(value, context, reg) ==
  LET Resolved(r) ==
        IF IsErr(r.v) THEN [v |-> RuleErr(r.v.msg), reg |-> r.reg]
        ELSE IF IsStr(r.v)
          THEN [v |-> RuleErr("String values are not allowed"), reg |-> r.reg]
        ELSE r
  IN  IF IsNum(value) \/ IsBool(value) THEN [v |-> value, reg |-> reg]
      ELSE Resolved(ExpressionEvaluate(Parse(value.s),
                                       VariableContext(context), reg))

resolveVariableValue(varName, context, reg) ==
  LET Resolved(r) ==
        IF IsErr(r.v) THEN [v |-> RuleErr("not found"), reg |-> r.reg]
        ELSE IF IsStr(r.v)
          THEN [v |-> RuleErr("String values are not allowed"), reg |-> r.reg]
        ELSE r
  IN  IF Has(context.calculated, varName)
        THEN [v |-> Get(context.calculated, varName), reg |-> reg]
      ELSE IF Has(context.inputs, varName)
        THEN [v |-> Get(context.inputs, varName), reg |-> reg]
      ELSE IF Has(context.constants, varName)
        THEN [v |-> Get(context.constants, varName), reg |-> reg]
      ELSE Resolved(ExpressionEvaluate(Parse(varName),
                                       VariableContext(context), reg))

\* one ordering operator: the right side must resolve to a number
OrderingComparison(value, operand, op, context, reg) ==
  LET Compared(c) ==
        IF IsErr(c.v) THEN c
        ELSE IF ~IsNum(c.v)
          THEN [v |-> RuleErr("Cannot compare number with non-number"),
                reg |-> c.reg]
        ELSE [v |-> Bool(CASE op = "lt" -> NumLt(value, c.v)
                           [] op = "lte" -> NumLe(value, c.v)
                           [] op = "gt" -> NumLt(c.v, value)
                           [] op = "gte" -> NumLe(c.v, value)),
              reg |-> c.reg]
  IN  Compared(resolveComparisonValue(operand, context, reg))

evaluateComparison(value, comparison, context, reg) ==
  LET Eq(c) ==
        IF IsErr(c.v) THEN c ELSE [v |-> Bool(value = c.v), reg |-> c.reg]
      Ne(c) ==
        IF IsErr(c.v) THEN c ELSE [v |-> Bool(value # c.v), reg |-> c.reg]
  IN  IF comparison.eq # Undefined
        THEN Eq(resolveComparisonValue(comparison.eq, context, reg))
      ELSE IF comparison.ne # Undefined
        THEN Ne(resolveComparisonValue(comparison.ne, context, reg))
      ELSE IF IsNum(value) /\ comparison.lt # Undefined
        THEN OrderingComparison(value, comparison.lt, "lt", context, reg)
      ELSE IF IsNum(value) /\ comparison.lte # Undefined
        THEN OrderingComparison(value, comparison.lte, "lte", context, reg)
      ELSE IF IsNum(value) /\ comparison.gt # Undefined
        THEN OrderingComparison(value, comparison.gt, "gt", context, reg)
      ELSE IF IsNum(value) /\ comparison.gte # Undefined
        THEN OrderingComparison(value, comparison.gte, "gte", context, reg)
      ELSE [v |-> Bool(FALSE), reg |-> reg]

isLogicalCondition(condition) ==
  Has(condition.e, "and") \/ Has(condition.e, "or") \/ Has(condition.e, "not")

\* Array.prototype.every / some over the children of an "and" / "or" node:
\* left to right, stopping at the first child that decides or throws
RECURSIVE evaluateCondition(_, _, _)

\* an every that evaluates all the children before it decides
RECURSIVE EveryFromAll(_, _, _, _)
EveryFromAll(children, i, context, reg) ==
  LET Both(r, rest) ==
        IF IsErr(r.v) THEN [v |-> r.v, reg |-> rest.reg]
        ELSE IF IsErr(rest.v) THEN rest
        ELSE [v |-> Bool(r.v.b /\ rest.v.b), reg |-> rest.reg]
      Decided(r) == Both(r, EveryFromAll(children, i + 1, context, r.reg))
  IN  IF i > Len(children) THEN [v |-> Bool(TRUE), reg |-> reg]
      ELSE Decided(evaluateCondition(children[i], context, reg))

RECURSIVE EveryFrom(_, _, _, _)
EveryFrom(children, i, context, reg) ==
  LET Decided(r) ==
        IF IsErr(r.v) \/ ~r.v.b THEN r
        ELSE EveryFrom(children, i + 1, context, r.reg)
  IN  IF i > Len(children) THEN [v |-> Bool(TRUE), reg |-> reg]
      ELSE Decided(evaluateCondition(children[i], context, reg))

RECURSIVE SomeFrom(_, _, _, _)
SomeFrom(children, i, context, reg) ==
  LET Decided(r) ==
        IF IsErr(r.v) \/ r.v.b THEN r
        ELSE SomeFrom(children, i + 1, context, r.reg)
  IN  IF i > Len(children) THEN [v |-> Bool(FALSE), reg |-> reg]
      ELSE Decided(evaluateCondition(children[i], context, reg))

evaluateLogicalCondition(condition, context, reg) ==
  LET Negated(r) ==
        IF IsErr(r.v) THEN r ELSE [v |-> Bool(~r.v.b), reg |-> r.reg]
  IN  IF Has(condition.e, "and") /\ Get(condition.e, "and") # Undefined
        THEN EveryFrom(Get(condition.e, "and").a, 1, context, reg)
      ELSE IF Has(condition.e, "or") /\ Get(condition.e, "or") # Undefined
        THEN SomeFrom(Get(condition.e, "or").a, 1, context, reg)
      ELSE IF Has(condition.e, "not") /\ Get(condition.e, "not") # Undefined
        THEN Negated(evaluateCondition(Get(condition.e, "not"), context, reg))
      ELSE [v |-> Bool(FALSE), reg |-> reg]

evaluateCondition(condition, context, reg) ==
  LET Compared(varValue) ==
        IF IsErr(varValue.v) THEN varValue
        ELSE evaluateComparison(varValue.v, condition.e[1].value, context,
                                varValue.reg)
  IN  IF isLogicalCondition(condition)
        THEN evaluateLogicalCondition(condition, context, reg)
      ELSE IF Len(condition.e) = 0 THEN [v |-> Bool(FALSE), reg |-> reg]
      ELSE Compared(resolveVariableValue(condition.e[1].name, context, reg))

\* ConditionalEvaluator.evaluate: every error becomes a RuleEvaluationError
ConditionalEvaluate(condition, context, reg) ==
  LET Caught(r) ==
        IF IsErr(r.v)
          THEN [v |-> RuleErr("Conditional evaluation failed"), reg |-> r.reg]
          ELSE r
  IN  Caught(evaluateCondition(condition, context, reg))

----------------------------------------------------------------------------
(* Operation registry (evaluator/operations.ts).  An operation function
   returns [ok, context, err, reg]: the new context, or the error it throws
   and the context it was given. *)

\* resolveValue: numbers and booleans as they are, any string as an expression
resolveValue(value, context, reg) ==
  LET Caught(r) ==
        IF IsErr(r.v) THEN [v |-> Err("Error", r.v.msg), reg |-> r.reg]
        ELSE r
  IN  IF IsNum(value) \/ IsBool(value) THEN [v |-> value, reg |-> reg]
      ELSE Caught(ExpressionEvaluate(Parse(value.s), VariableContext(context),
                                     reg))

Thrown(context, err, reg) ==
  [ok |-> FALSE, context |-> context, err |-> err, reg |-> reg]

\* the returned context without the spread of the calculated entries
AssignedAlone(context, target, value, reg) ==
  [ok |-> TRUE,
   context |-> [context EXCEPT !.calculated = <<Entry(target, value)>>],
   err |-> Undefined, reg |-> reg]

\* {...context, calculated: {...context.calculated, [target]: value}}
Assigned(context, target, value, reg) ==
  [ok |-> TRUE,
   context |-> [context EXCEPT !.calculated = Put(@, target, value)],
   err |-> Undefined, reg |-> reg]

setOperation(operation, context, reg) ==
  LET Stored(value) ==
        IF IsErr(value.v) THEN Thrown(context, value.v, value.reg)
        ELSE Assigned(context, operation.target, value.v, value.reg)
  IN  Stored(resolveValue(operation.value, context, reg))

\* an add that takes a current value that is not a number for 0
addOperationFromZero(operation, context, reg) ==
  LET currentValue == Get(context.calculated, operation.target)
      Stored(addValue) ==
        IF IsErr(addValue.v) THEN Thrown(context, addValue.v, addValue.reg)
        ELSE IF ~IsNum(addValue.v)
          THEN Thrown(context,
                      Err("OperationError",
                          "Add operation requires numeric values"),
                      addValue.reg)
        ELSE Assigned(context, operation.target,
                      IF IsNum(currentValue)
                        THEN NumAdd(currentValue, addValue.v)
                        ELSE addValue.v,
                      addValue.reg)
  IN  Stored(resolveValue(operation.value, context, reg))

addOperation(operation, context, reg) ==
  LET currentValue == Get(context.calculated, operation.target)
      Stored(addValue) ==
        IF IsErr(addValue.v) THEN Thrown(context, addValue.v, addValue.reg)
        ELSE IF ~IsNum(currentValue) \/ ~IsNum(addValue.v)
          THEN Thrown(context,
                      Err("OperationError",
                          "Add operation requires numeric values"),
                      addValue.reg)
        ELSE Assigned(context, operation.target,
                      NumAdd(currentValue, addValue.v), addValue.reg)
  IN  Stored(resolveValue(operation.value, context, reg))

subtractOp(operation, context, reg) ==
  LET currentValue == Get(context.calculated, operation.target)
      Stored(subValue) ==
        IF IsErr(subValue.v) THEN Thrown(context, subValue.v, subValue.reg)
        ELSE IF ~IsNum(currentValue) \/ ~IsNum(subValue.v)
          THEN Thrown(context,
                      Err("OperationError",
                          "Subtract operation requires numeric values"),
                      subValue.reg)
        ELSE Assigned(context, operation.target,
                      NumSub(currentValue, subValue.v), subValue.reg)
  IN  Stored(resolveValue(operation.value, context, reg))

multiplyOp(operation, context, reg) ==
  LET currentValue == Get(context.calculated, operation.target)
      Stored(mulValue) ==
        IF IsErr(mulValue.v) THEN Thrown(context, mulValue.v, mulValue.reg)
        ELSE IF ~IsNum(currentValue) \/ ~IsNum(mulValue.v)
          THEN Thrown(context,
                      Err("OperationError",
                          "Multiply operation requires numeric values"),
                      mulValue.reg)
        ELSE Assigned(context, operation.target,
                      NumMul(currentValue, mulValue.v), mulValue.reg)
  IN  Stored(resolveValue(operation.value, context, reg))

minOp(operation, context, reg) ==
  LET currentValue == Get(context.calculated, operation.target)
      Stored(minValue) ==
        IF IsErr(minValue.v) THEN Thrown(context, minValue.v, minValue.reg)
        ELSE IF ~IsNum(currentValue) \/ ~IsNum(minValue.v)
          THEN Thrown(context,
                      Err("OperationError",
                          "Min operation requires numeric values"),
                      minValue.reg)
        ELSE Assigned(context, operation.target,
                      NumMin(currentValue, minValue.v), minValue.reg)
  IN  Stored(resolveValue(operation.value, context, reg))

maxOp(operation, context, reg) ==
  LET currentValue == Get(context.calculated, operation.target)
      Stored(maxValue) ==
        IF IsErr(maxValue.v) THEN Thrown(context, maxValue.v, maxValue.reg)
        ELSE IF ~IsNum(currentValue) \/ ~IsNum(maxValue.v)
          THEN Thrown(context,
                      Err("OperationError",
                          "Max operation requires numeric values"),
                      maxValue.reg)
        ELSE Assigned(context, operation.target,
                      NumMax(currentValue, maxValue.v), maxValue.reg)
  IN  Stored(resolveValue(operation.value, context, reg))

\* a division that turns a zero divisor into a zero quotient
divideOpZeroQuotient(operation, context, reg) ==
  LET currentValue == Get(context.calculated, operation.target)
      Stored(divValue) ==
        IF IsErr(divValue.v) THEN Thrown(context, divValue.v, divValue.reg)
        ELSE IF ~IsNum(currentValue) \/ ~IsNum(divValue.v)
          THEN Thrown(context,
                      Err("OperationError",
                          "Divide operation requires numeric values"),
                      divValue.reg)
        ELSE Assigned(context, operation.target,
                      IF divValue.v = Num(0) THEN Num(0)
                      ELSE NumDiv(currentValue, divValue.v), divValue.reg)
  IN  Stored(resolveValue(operation.value, context, reg))

divideOp(operation, context, reg) ==
  LET currentValue == Get(context.calculated, operation.target)
      Stored(divValue) ==
        IF IsErr(divValue.v) THEN Thrown(context, divValue.v, divValue.reg)
        ELSE IF ~IsNum(currentValue) \/ ~IsNum(divValue.v)
          THEN Thrown(context,
                      Err("OperationError",
                          "Divide operation requires numeric values"),
                      divValue.reg)
        ELSE IF divValue.v = Num(0)
          THEN Thrown(context, Err("OperationError", "Division by zero"),
                      divValue.reg)
        ELSE Assigned(context, operation.target,
                      NumDiv(currentValue, divValue.v), divValue.reg)
  IN  Stored(resolveValue(operation.value, context, reg))

\* the bracket test of the lookup operation
LookupMatches(b, lookupValue) ==
  NumLe(b.min, lookupValue) /\ (b.max = Null \/ NumLe(lookupValue, b.max))

\* the bracket the loop of the lookup operation breaks at, 0 if none
LookupBracketIndex(brackets, lookupValue) ==
  IF \E i \in 1..Len(brackets) : LookupMatches(brackets[i], lookupValue)
    THEN CHOOSE i \in 1..Len(brackets) :
           /\ LookupMatches(brackets[i], lookupValue)
           /\ \A j \in 1..(i - 1) : ~LookupMatches(brackets[j], lookupValue)
    ELSE 0

\* the tax of the bracket's own slice, without the tax of the lower brackets
LookupTaxInBracket(bracket, lookupValue) ==
  LET taxableInBracket ==
        IF bracket.max = Null THEN NumSub(lookupValue, bracket.min)
        ELSE NumSub(NumMin(lookupValue, bracket.max), bracket.min)
  IN  NumMul(taxableInBracket, bracket.rate)

\* the progressive tax of a value in its bracket
LookupTotalTax(bracket, lookupValue) ==
  LET taxableInBracket ==
        IF bracket.max = Null THEN NumSub(lookupValue, bracket.min)
        ELSE NumSub(NumMin(lookupValue, bracket.max), bracket.min)
      taxInBracket == NumMul(taxableInBracket, bracket.rate)
  IN  NumAdd(bracket.base_tax, taxInBracket)

lookupOp(operation, context, reg) ==
  LET brackets == Get(context.tables.e, operation.table)
      Stored(lookupValue) ==
        IF IsErr(lookupValue.v)
          THEN Thrown(context, lookupValue.v, lookupValue.reg)
        ELSE IF ~IsNum(lookupValue.v)
          THEN Thrown(context,
                      Err("OperationError",
                          "Lookup operation requires numeric lookup value"),
                      lookupValue.reg)
        ELSE IF ~Has(context.tables.e, operation.table)
          THEN Thrown(context, Err("TableError", "Table not found"),
                      lookupValue.reg)
        ELSE IF LookupBracketIndex(brackets, lookupValue.v) = 0
          THEN Thrown(context, Err("TableError", "No bracket found"),
                      lookupValue.reg)
        ELSE Assigned(context, operation.target,
                      LookupTotalTax(
                        brackets[LookupBracketIndex(brackets, lookupValue.v)],
                        lookupValue.v),
                      lookupValue.reg)
  IN  Stored(resolveValue(operation.value, context, reg))

OPERATION_TYPES ==
  {"set", "add", "subtract", "deduct", "multiply", "divide", "min", "max",
   "lookup"}

\* OPERATION_REGISTRY[operation.type](operation, context, expressionEvaluator)
OPERATION_REGISTRY(operation, context, reg) ==
  CASE operation.type = "set" -> setOperation(operation, context, reg)
    [] operation.type = "add" -> addOperation(operation, context, reg)
    [] operation.type \in {"subtract", "deduct"} ->
         subtractOp(operation, context, reg)
    [] operation.type = "multiply" -> multiplyOp(operation, context, reg)
    [] operation.type = "divide" -> divideOp(operation, context, reg)
    [] operation.type = "min" -> minOp(operation, context, reg)
    [] operation.type = "max" -> maxOp(operation, context, reg)
    [] operation.type = "lookup" -> lookupOp(operation, context, reg)

\* RuleEvaluator.executeOperation
executeOperation(operation, context, reg) ==
  IF operation.type \notin OPERATION_TYPES
    THEN Thrown(context, Err("OperationError", "Unknown operation type"), reg)
    ELSE OPERATION_REGISTRY(operation, context, reg)

----------------------------------------------------------------------------
(* Rule flow evaluator (evaluator/evaluator.ts, class RuleEvaluator) *)

\* rule.constants || {}, rule.tables || []
OrEmpty(m) ==
  IF m = Undefined THEN << >> ELSE IF m.k = "array" THEN m.a ELSE m.e

\* the checks createContext makes on one provided (or defaulted) input:
\* "" when the value is accepted
InputIssue(inputDecl, value) ==
  IF TypeOf(value) # inputDecl.type THEN "has wrong type"
  ELSE IF IsNum(value) /\ inputDecl.minimum # Undefined
          /\ NumLt(value, inputDecl.minimum) THEN "is below minimum"
  ELSE IF IsNum(value) /\ inputDecl.maximum # Undefined
          /\ NumLt(inputDecl.maximum, value) THEN "is above maximum"
  ELSE IF inputDecl.enum # Undefined /\ Len(inputDecl.enum.a) > 0
          /\ ~\E i \in 1..Len(inputDecl.enum.a) : inputDecl.enum.a[i] = value
    THEN "is not in allowed enum values"
  ELSE ""

\* a guard that cannot be evaluated leaves the input optional
IsRequiredUnlessFailed(cond) ==
  IF IsErr(cond.v) THEN FALSE ELSE cond.v.b

\* isRequired of an input declared with a when guard, from the outcome of the
\* guard: the catch block makes an input required when the guard raised
IsRequired(cond) ==
  IF IsErr(cond.v) THEN TRUE ELSE cond.v.b

\* the loop of createContext over the declared inputs.  tempContext.inputs is
\* the caller's object: a default is written into it.
RECURSIVE ValidateInputsFrom(_, _, _, _)
ValidateInputsFrom(r, i, inputs, reg) ==
  LET inputName == r.inputs[i].name
      inputDecl == r.inputs[i].value
      tempContext == [inputs |-> inputs, constants |-> OrEmpty(r.constants),
                      calculated |-> EmptyMap, tables |-> Obj(EmptyMap)]
      hasDefault == inputDecl.default # Undefined
      \* inputs1: the caller's object after the default was written into it
      Checked(isRequired, inputs1, reg1) ==
        IF isRequired /\ ~hasDefault /\ ~Has(inputs, inputName)
          THEN [ok |-> FALSE, inputs |-> inputs1,
                err |-> RuleErr("Required input not provided"), reg |-> reg1]
        ELSE IF Has(inputs1, inputName)
                /\ InputIssue(inputDecl, Get(inputs1, inputName)) # ""
          THEN [ok |-> FALSE, inputs |-> inputs1,
                err |-> RuleErr(InputIssue(inputDecl, Get(inputs1, inputName))),
                reg |-> reg1]
        ELSE ValidateInputsFrom(r, i + 1, inputs1, reg1)
      Defaulted(isRequired, reg1) ==
        Checked(isRequired,
                IF ~Has(inputs, inputName) /\ hasDefault /\ isRequired
                  THEN Put(inputs, inputName, inputDecl.default)
                  ELSE inputs,
                reg1)
      Required(cond) == Defaulted(IsRequired(cond), cond.reg)
  IN  IF i > Len(r.inputs)
        THEN [ok |-> TRUE, inputs |-> inputs, err |-> Undefined, reg |-> reg]
      ELSE IF inputDecl.when # Undefined
        THEN Required(ConditionalEvaluate(inputDecl.when, tempContext, reg))
      ELSE Defaulted(TRUE, reg)

\* one bound of a bracket: a string is an expression over inputs and constants
ResolveBound(bound, r, inputs, reg) ==
  IF IsStr(bound)
    THEN ExpressionEvaluate(Parse(bound.s),
                            [inputs |-> inputs,
                             constants |-> OrEmpty(r.constants),
                             calculated |-> EmptyMap,
                             tables |-> Obj(EmptyMap)],
                            reg)
    ELSE [v |-> bound, reg |-> reg]

RECURSIVE ResolveBracketsFrom(_, _, _, _, _, _)
ResolveBracketsFrom(brackets, i, done, r, inputs, reg) ==
  LET Max(min, max) ==
        IF IsErr(max.v)
          THEN [ok |-> FALSE, brackets |-> done, reg |-> max.reg]
          ELSE ResolveBracketsFrom(
                 brackets, i + 1,
                 Append(done, [brackets[i] EXCEPT !.min = min.v, !.max = max.v]),
                 r, inputs, max.reg)
      Min(min) ==
        IF IsErr(min.v)
          THEN [ok |-> FALSE, brackets |-> done, reg |-> min.reg]
          ELSE Max(min, ResolveBound(brackets[i].max, r, inputs, min.reg))
  IN  IF i > Len(brackets) THEN [ok |-> TRUE, brackets |-> done, reg |-> reg]
      ELSE Min(ResolveBound(brackets[i].min, r, inputs, reg))

RECURSIVE ResolveTablesFrom(_, _, _, _, _, _)
ResolveTablesFrom(tables, i, tablesMap, r, inputs, reg) ==
  LET Mapped(b) ==
        IF ~b.ok THEN [ok |-> FALSE, tables |-> tablesMap, reg |-> b.reg]
        ELSE ResolveTablesFrom(tables, i + 1,
                               Put(tablesMap, tables[i].name, b.brackets),
                               r, inputs, b.reg)
  IN  IF i > Len(tables) THEN [ok |-> TRUE, tables |-> tablesMap, reg |-> reg]
      ELSE Mapped(ResolveBracketsFrom(tables[i].brackets, 1, << >>, r, inputs,
                                      reg))

\* a context seeded with the built-in variables
SeededCalculated == BUILTIN_OUTPUT_VARIABLES

\* calculated: {} of the context createContext returns
InitialCalculated == EmptyMap

\* RuleEvaluator.createContext: [ok, context, inputs, err, reg]; inputs is the
\* caller's map as the call leaves it
createContext(r, inputs, reg) ==
  LET Resolved(checked, resolved) ==
        IF ~resolved.ok
          THEN [ok |-> FALSE, context |-> Undefined, inputs |-> checked.inputs,
                err |-> RuleErr("Rule evaluation failed"), reg |-> resolved.reg]
          ELSE [ok |-> TRUE,
                context |-> [inputs |-> checked.inputs,
                             constants |-> OrEmpty(r.constants),
                             calculated |-> InitialCalculated,
                             tables |-> Obj(resolved.tables)],
                inputs |-> checked.inputs, err |-> Undefined,
                reg |-> resolved.reg]
      Checked(checked) ==
        IF ~checked.ok
          THEN [ok |-> FALSE, context |-> Undefined, inputs |-> checked.inputs,
                err |-> checked.err, reg |-> checked.reg]
          ELSE Resolved(checked,
                        ResolveTablesFrom(OrEmpty(r.tables), 1, EmptyMap, r,
                                          checked.inputs, checked.reg))
  IN  Checked(ValidateInputsFrom(r, 1, inputs, reg))

\* a runValidation that tests every rule and throws for the last one whose
\* condition is true
RECURSIVE runValidationLastTrue(_, _, _, _)
runValidationLastTrue(validationRules, i, context, reg) ==
  LET Later(c, rest) ==
        IF ~rest.ok THEN rest
        ELSE IF ~IsErr(c.v) /\ c.v.b
          THEN [ok |-> FALSE,
                err |-> RuleErr(validationRules[i].error), reg |-> rest.reg]
        ELSE rest
      Tested(c) ==
        Later(c, runValidationLastTrue(validationRules, i + 1, context, c.reg))
  IN  IF i > Len(validationRules)
        THEN [ok |-> TRUE, err |-> Undefined, reg |-> reg]
        ELSE Tested(ConditionalEvaluate(validationRules[i].when, context, reg))

\* a runValidation that stops, without an error, at the first rule whose
\* condition cannot be evaluated
RECURSIVE runValidationUntilFailure(_, _, _, _)
runValidationUntilFailure(validationRules, i, context, reg) ==
  LET Tested(c) ==
        IF IsErr(c.v) THEN [ok |-> TRUE, err |-> Undefined, reg |-> c.reg]
        ELSE IF c.v.b
          THEN [ok |-> FALSE,
                err |-> RuleErr(validationRules[i].error), reg |-> c.reg]
        ELSE runValidationUntilFailure(validationRules, i + 1, context, c.reg)
  IN  IF i > Len(validationRules)
        THEN [ok |-> TRUE, err |-> Undefined, reg |-> reg]
        ELSE Tested(ConditionalEvaluate(validationRules[i].when, context, reg))

\* RuleEvaluator.runValidation: the first rule whose condition is true throws;
\* a rule whose condition cannot be evaluated is skipped
RECURSIVE runValidation(_, _, _, _)
runValidation(validationRules, i, context, reg) ==
  LET Tested(c) ==
        IF ~IsErr(c.v) /\ c.v.b
          THEN [ok |-> FALSE,
                err |-> RuleErr(validationRules[i].error), reg |-> c.reg]
          ELSE runValidation(validationRules, i + 1, context, c.reg)
  IN  IF i > Len(validationRules)
        THEN [ok |-> TRUE, err |-> Undefined, reg |-> reg]
        ELSE Tested(ConditionalEvaluate(validationRules[i].when, context, reg))

\* the closing loop with 0 for every declared type
RECURSIVE DefaultOutputsZero(_, _, _)
DefaultOutputsZero(outputs, i, calculated) ==
  IF i > Len(outputs) THEN calculated
  ELSE DefaultOutputsZero(
         outputs, i + 1,
         IF Has(calculated, outputs[i].name) THEN calculated
         ELSE Put(calculated, outputs[i].name, Num(0)))

\* the loop that closes evaluate: every declared output absent from
\* calculated is given false (boolean) or 0 (any other declared type)
RECURSIVE DefaultOutputsFrom(_, _, _)
DefaultOutputsFrom(outputs, i, calculated) ==
  IF i > Len(outputs) THEN calculated
  ELSE DefaultOutputsFrom(
         outputs, i + 1,
         IF Has(calculated, outputs[i].name) THEN calculated
         ELSE Put(calculated, outputs[i].name,
                  IF outputs[i].value.type = "boolean" THEN Bool(FALSE)
                  ELSE Num(0)))

\* the catch block of evaluate: RuleEvaluationError and OperationError are
\* rethrown, anything else is wrapped in a RuleEvaluationError
Rethrow(err) ==
  IF err.cls \in {"RuleEvaluationError", "OperationError"} THEN err
  ELSE RuleErr("Rule evaluation failed")

\* Positions of evaluate inside processFlow / processFlowStep:
\* part "operations": about to run operations[op] of flow[step];
\* part "cases": about to test cases[case] of flow[step];
\* part "case_operations": about to run cases[case].operations[op];
\* part "end": the flow is exhausted.
Position(step, part, case, op) ==
  [step |-> step, part |-> part, case |-> case, op |-> op]

\* the next iteration of the loop of processFlow
NextStep(p) == Position(p.step + 1, "operations", 0, 1)

\* the loop over the cases without its break: the next case is tested
AfterCaseNoBreak(p) == Position(p.step, "cases", p.case + 1, 0)

\* the break that follows the operations of the executed case
AfterCase(p) == NextStep(p)

\* the position the loops stop at next, starting the search at p: exhausted
\* operation lists and case lists are left, a finished case leaves the step
RECURSIVE Settle(_, _)
Settle(flowSteps, p) ==
  IF p.step > Len(flowSteps) THEN Position(Len(flowSteps) + 1, "end", 0, 0)
  ELSE
    LET step == flowSteps[p.step]
    IN  CASE p.part = "operations" ->
               IF step.operations # Undefined /\ p.op <= Len(step.operations.a)
                 THEN p
                 ELSE Settle(flowSteps, Position(p.step, "cases", 1, 0))
          [] p.part = "cases" ->
               IF step.cases # Undefined /\ p.case <= Len(step.cases.a)
                 THEN p
                 ELSE Settle(flowSteps, NextStep(p))
          [] p.part = "case_operations" ->
               IF p.op <= Len(step.cases.a[p.case].operations)
                 THEN p
                 ELSE Settle(flowSteps, AfterCase(p))

----------------------------------------------------------------------------
(* The rules and inputs the model evaluates *)

\* the longest flow
MaxSteps == 2

Operation(type, target, value) ==
  [type |-> type, target |-> target, value |-> value]
Lookup(target, table, value) ==
  [type |-> "lookup", target |-> target, value |-> value, table |-> table]
Comparison(varName, op, value) ==
  Obj(<<Entry(varName, [NoComparison EXCEPT ![op] = value])>>)
Case(when, operations) == [when |-> when, operations |-> operations]
OperationsStep(operations) ==
  [operations |-> Arr(operations), cases |-> Undefined]
CasesStep(cases) == [operations |-> Undefined, cases |-> Arr(cases)]
Bracket(min, max, rate, base_tax) ==
  [min |-> min, max |-> max, rate |-> rate, base_tax |-> base_tax]
Declaration(type, default) ==
  [type |-> type, when |-> Undefined, default |-> default,
   minimum |-> Undefined, maximum |-> Undefined, enum |-> Undefined]

Tables ==
  << [name |-> "brackets",
      brackets |-> << Bracket(Num(0), Num(10), Rat(1, 10), Num(0)),
                      Bracket(Num(10), Num(20), Rat(1, 5), Num(1)),
                      Bracket(Num(30), Null, Rat(1, 4), Num(5)) >>],
     [name |-> "income_tax",
      brackets |-> << Bracket(Num(0), Num(250000), Num(0), Num(0)),
                      Bracket(Num(250000), Num(400000), Rat(1, 5), Num(0)),
                      Bracket(Num(400000), Null, Rat(1, 4), Num(30000)) >>],
     [name |-> "flat",
      brackets |-> << Bracket(Num(0), Str("$$MAX_TAXABLE_INCOME"),
                              Rat(1, 4), Num(0)) >>] >>

\* the steps flows are made of
StepPool ==
  << OperationsStep(<< Operation("set", "taxable", Str("$income")),
                       Operation("subtract", "taxable", Str("$$exemption")),
                       Operation("max", "taxable", Num(0)) >>),
     OperationsStep(<< Lookup("liability", "brackets", Str("$income")) >>),
     OperationsStep(<< Lookup("liability", "brackets", Str("taxable")) >>),
     OperationsStep(<< Lookup("liability", "income_tax", Str("$income")) >>),
     OperationsStep(<< Lookup("liability", "flat", Str("taxable")) >>),
     OperationsStep(<< Lookup("liability", "nowhere", Str("$income")) >>),
     CasesStep(<< Case(Comparison("senior", "eq", Bool(TRUE)),
                       << Operation("set", "relief", Num(2)) >>),
                  Case(Comparison("$income", "gt", Num(20)),
                       << Operation("set", "relief", Num(0)),
                          Operation("set", "eligible", Bool(TRUE)) >>) >>),
     OperationsStep(<< Operation("set", "share", Str("$income")),
                       Operation("divide", "share", Str("relief")) >>),
     OperationsStep(<< Operation("set", "share", Str("$income")),
                       Operation("divide", "share", Num(0)),
                       Operation("set", "taxable", Num(1)) >>),
     CasesStep(<< Case(Comparison("$income", "gte", Num(25)),
                       << Operation("set", "relief", Num(1)) >>),
                  Case(Undefined, << Operation("set", "relief", Num(3)) >>),
                  Case(Comparison("$income", "gte", Num(0)),
                       << Operation("set", "late", Num(1)) >>) >>),
     [operations |-> Arr(<< Operation("set", "liability", Str("$income")),
                            Operation("add", "liability", Num(1)) >>),
      cases |-> Arr(<< Case(Comparison("liability", "gt", Num(10)),
                            << Operation("multiply", "liability",
                                         Num(2)) >>) >>)],
     CasesStep(<< Case(Comparison("$missing", "eq", Num(1)),
                       << Operation("set", "relief", Num(1)) >>),
                  Case(Undefined, << Operation("set", "relief", Num(3)) >>) >>),
     CasesStep(<< Case(Comparison("$income", "lt", Num(0)), << >>),
                  Case(Undefined, << Operation("set", "relief", Num(5)) >>),
                  Case(Undefined, << Operation("set", "relief", Num(6)) >>) >>)
  >>

RECURSIVE FlowsOfLength(_)
FlowsOfLength(n) ==
  IF n = 0 THEN {<< >>}
  ELSE {Append(f, StepPool[i]) : f \in FlowsOfLength(n - 1),
                                 i \in 1..Len(StepPool)}

Flows == UNION {FlowsOfLength(n) : n \in 0..MaxSteps}

RuleWith(flowSteps) ==
  [constants |-> Obj(<<Entry("exemption", Num(10))>>),
   tables |-> Arr(Tables),
   inputs |-> <<Entry("income", Declaration("number", Undefined)),
                Entry("senior", Declaration("boolean", Bool(FALSE)))>>,
   outputs |-> <<Entry("liability", [type |-> "number"]),
                 Entry("taxable", [type |-> "number"]),
                 Entry("eligible", [type |-> "boolean"])>>,
   validate |-> Undefined,
   flow |-> flowSteps]

Rules == {RuleWith(f) : f \in Flows}

IncomeValues == {-5, 5, 10, 20, 25, 500000}

InputMaps ==
  {EmptyMap}
    \cup {<<Entry("income", Num(v))>> : v \in IncomeValues}
    \cup {<<Entry("income", Num(v)), Entry("senior", Bool(b))>> :
            v \in IncomeValues, b \in BOOLEAN}

----------------------------------------------------------------------------
(* One call of RuleEvaluator.evaluate(rule, inputs) on a new evaluator *)

VARIABLES
  rule,       \* the rule argument
  inputs,     \* the caller's inputs object
  symbols,    \* the symbol registry of the evaluator's expression evaluator
  status,     \* "idle" | "running" | "returned" | "thrown"
  context,    \* currentContext of processFlow / processFlowStep
  pc,         \* the position of evaluate in the flow
  result,     \* the context evaluate returned, the error it threw
  log         \* history: the guards tested and the operations run, in order

vars == <<rule, inputs, symbols, status, context, pc, result, log>>

Init ==
  /\ rule \in Rules
  /\ inputs \in InputMaps
  /\ symbols = NewSymbolRegistry
  /\ status = "idle"
  /\ context = Undefined
  /\ pc = Position(0, "start", 0, 0)
  /\ result = Undefined
  /\ log = << >>

Event(kind, p, seen, r) ==
  [kind |-> kind, step |-> p.step, case |-> p.case, op |-> p.op,
   seen |-> seen, ok |-> r.ok, after |-> r.after, value |-> r.value]

\* an evaluate that recovers from an error with the context reached so far
ThrowPartial(err) ==
  /\ status' = "returned"
  /\ result' = context

\* an error leaves evaluate through its catch block
Throw(err) ==
  /\ status' = "thrown"
  /\ result' = Rethrow(err)

\* evaluate up to the first step: createContext, then runValidation
Begin ==
  /\ status = "idle"
  /\ \E created \in {createContext(rule, inputs, symbols)} :
       \E validated \in
           {IF created.ok /\ rule.validate # Undefined
              THEN runValidation(rule.validate.a, 1, created.context,
                                 created.reg)
              ELSE [ok |-> TRUE, err |-> Undefined, reg |-> created.reg]} :
         /\ inputs' = created.inputs
         /\ symbols' = validated.reg
         /\ IF ~created.ok
              THEN Throw(created.err) /\ UNCHANGED <<context, pc>>
            ELSE IF ~validated.ok
              THEN Throw(validated.err) /\ UNCHANGED <<context, pc>>
            ELSE /\ status' = "running"
                 /\ context' = created.context
                 /\ pc' = Settle(rule.flow, Position(1, "operations", 0, 1))
                 /\ result' = result
  /\ UNCHANGED <<rule, log>>

\* one executeOperation call, at position p of the flow
RunOperation(operation, next) ==
  \E r \in {executeOperation(operation, context, symbols)} :
    /\ symbols' = r.reg
    /\ log' = Append(log,
                Event("operation", pc, context.calculated,
                      [ok |-> r.ok, after |-> r.context.calculated,
                       value |-> IF r.ok
                                   THEN Get(r.context.calculated,
                                            operation.target)
                                   ELSE r.err]))
    /\ IF r.ok
         THEN /\ context' = r.context
              /\ pc' = Settle(rule.flow, next)
              /\ UNCHANGED <<status, result>>
         ELSE Throw(r.err) /\ UNCHANGED <<context, pc>>
    /\ UNCHANGED <<rule, inputs>>

\* the next operation of step.operations
ExecuteStepOperation ==
  /\ status = "running"
  /\ pc.part = "operations"
  /\ RunOperation(rule.flow[pc.step].operations.a[pc.op],
                  [pc EXCEPT !.op = @ + 1])

\* the test of the next case of step.cases
EvaluateCase ==
  /\ status = "running"
  /\ pc.part = "cases"
  /\ LET case_ == rule.flow[pc.step].cases.a[pc.case]
         taken == Position(pc.step, "case_operations", pc.case, 1)
     IN  IF case_.when = Undefined
           THEN /\ log' = Append(log,
                            Event("default", pc, context.calculated,
                                  [ok |-> TRUE, after |-> context.calculated,
                                   value |-> Bool(TRUE)]))
                /\ pc' = Settle(rule.flow, taken)
                /\ UNCHANGED <<symbols, status, result>>
           ELSE \E guard \in {ConditionalEvaluate(case_.when, context, symbols)} :
                  /\ symbols' = guard.reg
                  /\ log' = Append(log,
                              Event("guard", pc, context.calculated,
                                    [ok |-> ~IsErr(guard.v),
                                     after |-> context.calculated,
                                     value |-> guard.v]))
                  /\ IF IsErr(guard.v)
                       THEN Throw(guard.v) /\ pc' = pc
                     ELSE IF guard.v.b
                       THEN pc' = Settle(rule.flow, taken)
                            /\ UNCHANGED <<status, result>>
                     ELSE pc' = Settle(rule.flow, [pc EXCEPT !.case = @ + 1])
                          /\ UNCHANGED <<status, result>>
  /\ UNCHANGED <<rule, inputs, context>>

\* the next operation of the case that was taken
ExecuteCaseOperation ==
  /\ status = "running"
  /\ pc.part = "case_operations"
  /\ RunOperation(rule.flow[pc.step].cases.a[pc.case].operations[pc.op],
                  [pc EXCEPT !.op = @ + 1])

\* the end of evaluate: default the declared outputs, return the context
Return ==
  /\ status = "running"
  /\ pc.part = "end"
  /\ context' = [context EXCEPT
                   !.calculated = DefaultOutputsFrom(rule.outputs, 1, @)]
  /\ result' = context'
  /\ status' = "returned"
  /\ UNCHANGED <<rule, inputs, symbols, pc, log>>

Next ==
  \/ Begin
  \/ ExecuteStepOperation
  \/ EvaluateCase
  \/ ExecuteCaseOperation
  \/ Return

Spec == Init /\ [][Next]_vars

----------------------------------------------------------------------------
(* Reading the history *)

CasesOf(e) == rule.flow[e.step].cases.a

\* the operation an "operation" event ran
OperationAt(e) ==
  IF e.case = 0 THEN rule.flow[e.step].operations.a[e.op]
  ELSE CasesOf(e)[e.case].operations[e.op]

IsTest(e) == e.kind \in {"guard", "default"}

\* a test that selected its case
IsTaken(e) == e.kind = "default" \/ (e.kind = "guard" /\ e.value = Bool(TRUE))

\* a guard that was evaluated to false
IsRefused(e) == e.kind = "guard" /\ e.value = Bool(FALSE)

----------------------------------------------------------------------------
(* C1: in a cases step the guards are evaluated in list order up to the first
   case whose guard is true or that has no guard; the operations of that case
   and of no other case run, and nothing of the step is evaluated after it.
   When every guard is false no operation of the step runs, no error is
   raised and the context is the one the cases were given. *)
FirstMatchingCaseOnly ==
  \A i \in 1..Len(log) :
    LET e == log[i]
    IN  /\ IsTest(e) =>
             /\ (e.kind = "default") = (CasesOf(e)[e.case].when = Undefined)
             \* every earlier case was tested, in order, and refused
             /\ \A c \in 1..(e.case - 1) :
                  /\ i - (e.case - c) >= 1
                  /\ LET d == log[i - (e.case - c)]
                     IN  d.step = e.step /\ d.case = c /\ IsRefused(d)
        /\ (e.kind = "operation" /\ e.case > 0) =>
             \* it belongs to the case taken just before its operations
             /\ i - e.op >= 1
             /\ LET t == log[i - e.op]
                IN  t.step = e.step /\ t.case = e.case /\ IsTaken(t)
        /\ IsTaken(e) =>
             \* nothing but the operations of this case follows in the step
             /\ \A j \in (i + 1)..Len(log) :
                  log[j].step = e.step =>
                    /\ log[j].kind = "operation"
                    /\ log[j].case = e.case
                    /\ log[j].op = j - i
             \* and once the step is left all of them have run
             /\ (status # "thrown" /\ pc.step > e.step) =>
                  \A n \in 1..Len(CasesOf(e)[e.case].operations) :
                    /\ i + n <= Len(log)
                    /\ log[i + n].kind = "operation"
                    /\ log[i + n].step = e.step
                    /\ log[i + n].case = e.case
                    /\ log[i + n].op = n
        /\ (IsRefused(e) /\ e.case = Len(CasesOf(e))) =>
             \* no case matched: a no-op
             /\ e.ok /\ e.after = e.seen
             /\ \A j \in 1..Len(log) :
                  log[j].step = e.step /\ log[j].kind = "operation"
                    => log[j].case = 0
             /\ i = Len(log) =>
                  /\ status # "thrown"
                  /\ pc.step > e.step
                  /\ status = "running" => context.calculated = e.seen
             /\ i < Len(log) => /\ log[i + 1].seen = e.seen
                                /\ log[i + 1].step > e.step

\* a guard was refused, a later guard-less case ran to its end and left a
\* still later case untested
WitnessFirstMatchingCaseOnly ==
  /\ status = "returned"
  /\ \E i \in 1..Len(log) :
       /\ log[i].kind = "default"
       /\ log[i].case > 1
       /\ log[i].case < Len(CasesOf(log[i]))
       /\ i < Len(log) /\ log[i + 1].kind = "operation"

----------------------------------------------------------------------------
(* C2: guards and operations run in flow order (steps in order; in a step the
   operations, then the cases; in a case the guard, then its operations), and
   the calculated values each of them reads are exactly the values stored by
   the operations that ran before it. *)

\* the calculated object built by the first k events alone
RECURSIVE Replay(_)
Replay(k) ==
  IF k = 0 THEN EmptyMap
  ELSE IF log[k].kind = "operation" /\ log[k].ok
    THEN Put(Replay(k - 1), OperationAt(log[k]).target, log[k].value)
  ELSE Replay(k - 1)

\* a comes before b in the flow
Before(a, b) ==
  LET part(e) == IF e.kind = "operation" /\ e.case = 0 THEN 0 ELSE 1
  IN  \/ a.step < b.step
      \/ a.step = b.step /\ part(a) < part(b)
      \/ a.step = b.step /\ part(a) = part(b) /\ a.case < b.case
      \/ a.step = b.step /\ part(a) = part(b) /\ a.case = b.case /\ a.op < b.op

FlowOrderAndThreading ==
  /\ \A i \in 1..Len(log) : log[i].seen = Replay(i - 1)
  /\ \A i \in 1..(Len(log) - 1) : Before(log[i], log[i + 1])
  /\ status = "running" => context.calculated = Replay(Len(log))
  /\ (status = "running" /\ pc.part # "end" /\ log # << >>) =>
       Before(log[Len(log)],
              [kind |-> IF pc.part = "cases" THEN "guard" ELSE "operation",
               step |-> pc.step, case |-> pc.case, op |-> pc.op])

\* a guard read what its own step and an earlier step had stored
WitnessFlowOrderAndThreading ==
  /\ status = "returned"
  /\ \E i \in 1..Len(log) :
       /\ log[i].kind = "guard"
       /\ log[i].step = 2
       /\ Get(log[i].seen, "liability") = Num(26)
       /\ Get(log[i].seen, "taxable") = Num(15)
       /\ log[i].value = Bool(TRUE)

----------------------------------------------------------------------------
(* C3: when an operation or a case guard raises an error, evaluate raises an
   error and returns no context, and the failing operation or guard is the
   last thing evaluate did. *)
FailFast ==
  /\ \A i \in 1..Len(log) :
       ~log[i].ok => /\ i = Len(log)
                     /\ status = "thrown"
                     /\ IsErr(result)
                     /\ result.cls \in {"RuleEvaluationError", "OperationError"}
  /\ status = "thrown" => IsErr(result)
  /\ status = "returned" => "calculated" \in DOMAIN result

\* an operation failed with operations and steps still ahead of it
WitnessFailFast ==
  /\ status = "thrown"
  /\ Len(log) >= 2
  /\ log[Len(log)].kind = "operation"
  /\ ~log[Len(log)].ok
  /\ pc.step < Len(rule.flow)
  /\ pc.op < Len(rule.flow[pc.step].operations.a)

----------------------------------------------------------------------------
(* C4: when evaluate returns, every declared output is in calculated: with
   the value last assigned to it, or, when no operation assigned it, with 0
   for a number output and false for a boolean output. *)

Assigns(e, name) ==
  e.kind = "operation" /\ e.ok /\ OperationAt(e).target = name

DeclaredOutputsPresent ==
  status = "returned" =>
    \A o \in 1..Len(rule.outputs) :
      LET name == rule.outputs[o].name
          type == rule.outputs[o].value.type
          hits == {i \in 1..Len(log) : Assigns(log[i], name)}
      IN  /\ Has(result.calculated, name)
          /\ hits # {} =>
               \E i \in hits :
                 /\ \A j \in hits : j <= i
                 /\ Get(result.calculated, name) = log[i].value
          /\ (hits = {} /\ type = "number") =>
               Get(result.calculated, name) = Num(0)
          /\ (hits = {} /\ type = "boolean") =>
               Get(result.calculated, name) = Bool(FALSE)

\* one output was assigned, a number and a boolean output were not
WitnessDeclaredOutputsPresent ==
  /\ status = "returned"
  /\ \E i \in 1..Len(log) : Assigns(log[i], "liability")
  /\ \A i \in 1..Len(log) : ~Assigns(log[i], "taxable")
  /\ \A i \in 1..Len(log) : ~Assigns(log[i], "eligible")
  /\ Get(result.calculated, "liability") # Num(0)

----------------------------------------------------------------------------
(* C5: calculated is empty when the flow starts and no operation removes a
   name from it. *)
CalculatedOnlyGrows ==
  /\ (status = "running" /\ log = << >>) => context.calculated = EmptyMap
  /\ log # << >> => log[1].seen = EmptyMap
  /\ \A i \in 1..Len(log) : Keys(log[i].seen) \subseteq Keys(log[i].after)
  /\ \A i \in 1..(Len(log) - 1) :
       Keys(log[i].after) \subseteq Keys(log[i + 1].seen)
  /\ (status \in {"running", "returned"} /\ log # << >>) =>
       Keys(log[Len(log)].after) \subseteq Keys(context.calculated)

\* an operation overwrote a name while other names were kept
WitnessCalculatedOnlyGrows ==
  \E i \in 1..Len(log) :
    /\ log[i].kind = "operation" /\ log[i].ok
    /\ Has(log[i].seen, OperationAt(log[i]).target)
    /\ Cardinality(Keys(log[i].after)) >= 3

----------------------------------------------------------------------------
(* Reading the operand of a recorded operation *)

\* the context the operation of event e was given
ContextAt(e) == [context EXCEPT !.calculated = e.seen]

\* the value the operand of the operation of event e resolved to
Operand(e) == resolveValue(OperationAt(e).value, ContextAt(e), symbols).v

IsLookup(e) == e.kind = "operation" /\ OperationAt(e).type = "lookup"

HasTable(e) == Has(context.tables.e, OperationAt(e).table)

BracketsOf(e) == Get(context.tables.e, OperationAt(e).table)

\* the first bracket with min <= value and (value < max or max unbounded),
\* 0 if there is none
HalfOpenBracketIndex(brackets, value) ==
  LET hit(i) == /\ NumLe(brackets[i].min, value)
                /\ (brackets[i].max = Null \/ NumLt(value, brackets[i].max))
  IN  IF \E i \in 1..Len(brackets) : hit(i)
        THEN CHOOSE i \in 1..Len(brackets) :
               hit(i) /\ \A j \in 1..(i - 1) : ~hit(j)
        ELSE 0

----------------------------------------------------------------------------
(* C6: the lookup operation selects the first bracket, in table order, with
   min <= value and (value < max or max unbounded); a value equal to the max
   of a bracket is not matched by that bracket. *)
LookupMaxExclusive ==
  \A i \in 1..Len(log) :
    (IsLookup(log[i]) /\ IsNum(Operand(log[i])) /\ HasTable(log[i])) =>
      LookupBracketIndex(BracketsOf(log[i]), Operand(log[i]))
        = HalfOpenBracketIndex(BracketsOf(log[i]), Operand(log[i]))

----------------------------------------------------------------------------
(* C7: a lookup operation whose table does not exist, or whose value is in no
   bracket (below the first min, or in a gap between brackets), raises an
   error and stores nothing in target. *)
LookupWithoutBracketRaises ==
  \A i \in 1..Len(log) :
    (/\ IsLookup(log[i])
     /\ IsNum(Operand(log[i]))
     /\ \/ ~HasTable(log[i])
        \/ HalfOpenBracketIndex(BracketsOf(log[i]), Operand(log[i])) = 0)
      => ~log[i].ok /\ log[i].after = log[i].seen

----------------------------------------------------------------------------
(* C9: for the bracket it selected, the lookup operation stores
   base_tax + (min(value, max) - min) * rate, max being value when the bracket
   is unbounded; the table [{0,250000,0,0},{250000,400000,0.20,0},
   {400000,unbounded,0.25,30000}] and the value 500000 give 55000. *)
LookupStoresProgressiveTax ==
  \A i \in 1..Len(log) :
    (IsLookup(log[i]) /\ log[i].ok) =>
      LET value == Operand(log[i])
          b == BracketsOf(log[i])[LookupBracketIndex(BracketsOf(log[i]), value)]
          max == IF b.max = Null THEN value ELSE b.max
      IN  /\ log[i].value
               = NumAdd(b.base_tax,
                        NumMul(NumSub(NumMin(value, max), b.min), b.rate))
          /\ Get(log[i].after, OperationAt(log[i]).target) = log[i].value
          /\ (OperationAt(log[i]).table = "income_tax" /\ value = Num(500000))
               => log[i].value = Num(55000)

\* 500000 was looked up in the three-bracket table
WitnessLookupStoresProgressiveTax ==
  \E i \in 1..Len(log) :
    /\ IsLookup(log[i]) /\ log[i].ok
    /\ OperationAt(log[i]).table = "income_tax"
    /\ Operand(log[i]) = Num(500000)
    /\ log[i].value = Num(55000)

----------------------------------------------------------------------------
(* C10: a divide whose operand resolves to 0 raises an error and leaves the
   context as it was before the operation, whatever number target held. *)
DivideByZeroRaises ==
  \A i \in 1..Len(log) :
    LET e == log[i]
    IN  (/\ e.kind = "operation"
         /\ OperationAt(e).type = "divide"
         /\ IsNum(Get(e.seen, OperationAt(e).target))
         /\ Operand(e) = Num(0))
          => /\ ~e.ok
             /\ e.value.cls = "OperationError"
             /\ e.after = e.seen
             /\ i = Len(log)
             /\ status = "thrown"
             /\ context = ContextAt(e)

\* a target holding a number other than 0 was divided by a variable holding 0
WitnessDivideByZeroRaises ==
  /\ status = "thrown"
  /\ log # << >>
  /\ LET e == log[Len(log)]
     IN  /\ e.kind = "operation"
         /\ OperationAt(e).type = "divide"
         /\ OperationAt(e).value = Str("relief")
         /\ IsNum(Get(e.seen, "share"))
         /\ Get(e.seen, "share") # Num(0)
         /\ Operand(e) = Num(0)

----------------------------------------------------------------------------
(* The built-in function lookup beside the lookup operation: one evaluation
   of a rule whose flow is a single lookup operation, where the expression
   lookup('<table>', <value>) is evaluated on the context of the rule, tables
   included, just before the operation runs. *)

LookupTableNames == {"brackets", "income_tax", "flat", "nowhere"}

LookupRules ==
  {RuleWith(<<OperationsStep(<<Lookup("liability", t, Str("$income"))>>)>>) :
     t \in LookupTableNames}

LookupInit ==
  /\ rule \in LookupRules
  /\ inputs \in InputMaps
  /\ symbols = NewSymbolRegistry
  /\ status = "idle"
  /\ context = Undefined
  /\ pc = Position(0, "start", 0, 0)
  /\ result = Undefined
  /\ log = << >>

\* expressionEvaluator.evaluate of the call, with the table and the value of
\* the operation that is about to run
EvaluateLookupFunction ==
  /\ status = "running"
  /\ pc.part = "operations"
  /\ log = << >>
  /\ \E r \in {ExpressionEvaluate(
                 Call("lookup",
                      <<StringLiteral(rule.flow[pc.step].operations.a[pc.op].table),
                        Parse(rule.flow[pc.step].operations.a[pc.op].value.s)>>),
                 context, symbols)} :
       /\ symbols' = r.reg
       /\ log' = Append(log,
                   Event("function", pc, context.calculated,
                         [ok |-> ~IsErr(r.v), after |-> context.calculated,
                          value |-> r.v]))
  /\ UNCHANGED <<rule, inputs, status, context, pc, result>>

\* the lookup operation, once the function has been evaluated
ExecuteLookupOperation ==
  /\ log # << >>
  /\ ExecuteStepOperation

LookupNext ==
  \/ Begin
  \/ EvaluateLookupFunction
  \/ ExecuteLookupOperation
  \/ Return

LookupSpec == LookupInit /\ [][LookupNext]_vars

----------------------------------------------------------------------------
(* C8: for every table and value the built-in function lookup(tableName,
   value) has the outcome of the lookup operation on that table and value:
   the same number when the operation stores one, an error when the
   operation raises one. *)
LookupFunctionAgreesWithOperation ==
  \A i \in 1..(Len(log) - 1) :
    (log[i].kind = "function" /\ IsLookup(log[i + 1])) =>
      IF log[i + 1].ok
        THEN log[i].ok /\ log[i].value = log[i + 1].value
        ELSE ~log[i].ok

----------------------------------------------------------------------------
(* Rules over typed values: a string input, and the name x declared as an
   input and as a constant *)

StatusValues == {"SINGLE", "MARRIED"}

TypedRuleWith(flowSteps) ==
  [constants |-> Obj(<<Entry("exemption", Num(10)), Entry("x", Num(2)),
                       Entry("is_active", Bool(FALSE))>>),
   tables |-> Arr(Tables),
   inputs |-> <<Entry("income", Declaration("number", Undefined)),
                Entry("senior", Declaration("boolean", Bool(FALSE))),
                Entry("status",
                      [Declaration("string", Undefined) EXCEPT
                         !.enum = Arr(<<Str("SINGLE"), Str("MARRIED")>>)]),
                Entry("x", Declaration("number", Undefined))>>,
   outputs |-> <<Entry("liability", [type |-> "number"]),
                 Entry("eligible", [type |-> "boolean"])>>,
   validate |-> Undefined,
   flow |-> flowSteps]

TypedInputMaps ==
  {<<Entry("income", Num(v)), Entry("status", Str(s)), Entry("x", Num(1))>> :
     v \in {5, 25}, s \in StatusValues}
    \cup {<<Entry("income", Num(v)), Entry("status", Str(s)),
            Entry("x", Num(1)), Entry("senior", Bool(TRUE))>> :
            v \in {5, 25}, s \in StatusValues}

----------------------------------------------------------------------------
(* The numeric operations on targets and operands of every type: one
   evaluation of a rule that prepares a target, then applies one numeric
   operation to it in a case *)

NumericTypes ==
  {"add", "subtract", "deduct", "multiply", "divide", "min", "max"}

ArithmeticTargets == {"total", "liability"}

\* the target left unassigned, holding a number, a boolean, a string
ArithmeticSetups(target) ==
  { << Operation("set", "other", Num(1)) >>,
    << Operation("set", target, Num(6)) >>,
    << Operation("set", target, Bool(TRUE)) >>,
    << Operation("set", target, Str("$status")) >> }

ArithmeticOperands == {Num(2), Num(0), Str("$senior"), Str("$status")}

ArithmeticFlow(setup, operation) ==
  << OperationsStep(setup),
     CasesStep(<< Case(Comparison("$income", "lt", Num(10)), <<operation>>),
                  Case(Undefined,
                       <<operation, Operation("set", "other", Num(2))>>) >>) >>

ArithmeticRules ==
  UNION {{TypedRuleWith(ArithmeticFlow(setup, Operation(type, target, value))) :
            setup \in ArithmeticSetups(target), type \in NumericTypes,
            value \in ArithmeticOperands} :
         target \in ArithmeticTargets}

ArithmeticInit ==
  /\ rule \in ArithmeticRules
  /\ inputs \in TypedInputMaps
  /\ symbols = NewSymbolRegistry
  /\ status = "idle"
  /\ context = Undefined
  /\ pc = Position(0, "start", 0, 0)
  /\ result = Undefined
  /\ log = << >>

ArithmeticSpec == ArithmeticInit /\ [][Next]_vars

\* a numeric operation was run
IsNumeric(e) == e.kind = "operation" /\ OperationAt(e).type \in NumericTypes

\* what the target of the operation held when it ran, Undefined when nothing
Current(e) == Get(e.seen, OperationAt(e).target)

NonNumber(v) == IsBool(v) \/ IsStr(v)

\* the operation raised an operation error and left the context alone
RaisedOperationError(i) ==
  /\ ~log[i].ok
  /\ log[i].value.cls = "OperationError"
  /\ log[i].after = log[i].seen
  /\ i = Len(log)
  /\ status = "thrown"
  /\ result.cls = "OperationError"
  /\ context = ContextAt(log[i])

(* C11: add, subtract, deduct, multiply, divide, min and max raise an
   operation error and leave the context unchanged whenever the target holds
   a Boolean or a String, or the operand resolves to a Boolean or a String. *)
NumericOperationsRejectNonNumbers ==
  \A i \in 1..Len(log) :
    (IsNumeric(log[i])
       /\ (NonNumber(Current(log[i])) \/ NonNumber(Operand(log[i]))))
      => RaisedOperationError(i)

\* a target holding a boolean met a number, and a target holding a number
\* met a string
WitnessNumericOperationsRejectNonNumbers ==
  /\ status = "thrown"
  /\ log # << >>
  /\ LET e == log[Len(log)]
     IN  /\ IsNumeric(e)
         /\ ~e.ok
         /\ \/ IsBool(Current(e)) /\ IsNum(Operand(e))
            \/ IsNum(Current(e)) /\ IsStr(Operand(e))

----------------------------------------------------------------------------
\* what a numeric operation stores for a current value and an operand
NumericResult(type, current, value) ==
  CASE type = "add" -> NumAdd(current, value)
    [] type \in {"subtract", "deduct"} -> NumSub(current, value)
    [] type = "multiply" -> NumMul(current, value)
    [] type = "divide" -> NumDiv(current, value)
    [] type = "min" -> NumMin(current, value)
    [] type = "max" -> NumMax(current, value)

(* C12: a numeric operation on a target that has not been assigned in this
   evaluation takes the current value of the target for 0 and does not fail:
   an add then stores the operand. *)
UnassignedTargetCountsAsZero ==
  \A i \in 1..Len(log) :
    LET e == log[i]
    IN  (/\ IsNumeric(e)
         /\ ~Has(e.seen, OperationAt(e).target)
         /\ IsNum(Operand(e))
         /\ ~(OperationAt(e).type = "divide" /\ Operand(e) = Num(0)))
          => /\ e.ok
             /\ e.value = NumericResult(OperationAt(e).type, Num(0), Operand(e))

----------------------------------------------------------------------------
(* Conditions over every domain and every type: one evaluation of a rule
   that prepares the calculated values, then tests one condition as the guard
   of a case *)

And(children) == Obj(<<Entry("and", Arr(children))>>)
Or(children) == Obj(<<Entry("or", Arr(children))>>)
Not(child) == Obj(<<Entry("not", child)>>)

ConditionSetups ==
  { << Operation("set", "other", Num(1)) >>,
    << Operation("set", "x", Num(3)) >>,
    << Operation("set", "MARRIED", Num(25)) >>,
    << Operation("set", "label", Str("$status")) >>,
    << Operation("set", "x", Num(3)), Operation("set", "a", Str("$x")),
       Operation("set", "b", Str("$$x")), Operation("set", "c", Str("x")) >>,
    << Operation("set", "a", Str("liability")),
       Operation("set", "b", Str("$$MAX_TAXABLE_INCOME")),
       Operation("set", "c", Str("x")) >>,
    << Operation("set", "c", Str("$exemption")) >>,
    << Operation("set", "c", Str("$$income")) >>,
    << Operation("set", "c", Str("income")) >> }

\* comparisons whose left side names each domain
DomainConditions ==
  { Comparison("x", "eq", Num(1)), Comparison("x", "eq", Num(3)),
    Comparison("$x", "eq", Num(1)), Comparison("$$x", "eq", Num(2)),
    Comparison("income", "gt", Num(10)),
    Comparison("exemption", "eq", Num(10)),
    Comparison("$exemption", "eq", Num(10)),
    Comparison("$$income", "gt", Num(10)),
    Comparison("liability", "eq", Num(0)) }

\* comparisons with a string on either side
StringConditions ==
  { Comparison("$status", "eq", Str("MARRIED")),
    Comparison("$status", "ne", Str("SINGLE")),
    Comparison("status", "eq", Str("MARRIED")),
    Comparison("label", "ne", Str("MARRIED")),
    Comparison("$income", "eq", Str("MARRIED")),
    Comparison("$income", "ne", Str("MARRIED")),
    Comparison("$income", "eq", Str("$x")),
    Comparison("$income", "ne", Str("$$exemption")) }

\* ordering comparisons with every type on either side
OrderingConditions ==
  { Comparison(left, op, Num(10)) :
      left \in {"$income", "$senior", "status", "label"},
      op \in {"lt", "lte", "gt", "gte"} }
    \cup { Comparison("$income", op, right) :
             op \in {"lt", "lte", "gt", "gte"},
             right \in {Str("$x"), Str("$$is_active"), Str("$status"),
                        Str("MARRIED"), Bool(TRUE)} }

\* a true, a false and a failing comparison under "and", "or" and "not"
LogicalChildren ==
  { Comparison("$income", "gt", Num(0)), Comparison("$income", "lt", Num(0)),
    Comparison("$missing", "eq", Num(1)) }

LogicalConditions ==
  { And(<<a, b>>) : a \in LogicalChildren, b \in LogicalChildren }
    \cup { Or(<<a, b>>) : a \in LogicalChildren, b \in LogicalChildren }
    \cup { Not(a) : a \in LogicalChildren }
    \cup { And(<< >>), Or(<< >>),
           And(<< Or(<< Comparison("$income", "lt", Num(0)),
                        Comparison("$income", "gt", Num(0)) >>),
                  Not(Comparison("$income", "lt", Num(0))),
                  Comparison("$income", "gte", Num(25)) >>),
           Or(<< And(<< Comparison("$income", "gt", Num(0)),
                        Comparison("$income", "gte", Num(25)) >>),
                 Not(Comparison("$missing", "eq", Num(1))) >>) }

Conditions ==
  DomainConditions \cup StringConditions \cup OrderingConditions
    \cup LogicalConditions

ConditionFlow(setup, condition) ==
  << OperationsStep(setup),
     CasesStep(<< Case(condition, << Operation("set", "hit", Num(1)) >>),
                  Case(Undefined, << Operation("set", "hit", Num(0)) >>) >>) >>

ConditionRules ==
  {TypedRuleWith(ConditionFlow(setup, condition)) :
     setup \in ConditionSetups, condition \in Conditions}

ConditionInit ==
  /\ rule \in ConditionRules
  /\ inputs \in TypedInputMaps
  /\ symbols = NewSymbolRegistry
  /\ status = "idle"
  /\ context = Undefined
  /\ pc = Position(0, "start", 0, 0)
  /\ result = Undefined
  /\ log = << >>

ConditionSpec == ConditionInit /\ [][Next]_vars

\* the condition a "guard" event tested
GuardOf(e) == CasesOf(e)[e.case].when

IsComparison(condition) ==
  ~isLogicalCondition(condition) /\ Len(condition.e) = 1

\* the text on the left side of a comparison
LeftText(condition) == condition.e[1].name

\* what ConditionalEvaluator.evaluate makes of a result of evaluateCondition
GuardOutcome(r) ==
  IF IsErr(r.v) THEN RuleErr("Conditional evaluation failed") ELSE r.v

IsReference(expression) ==
  expression.type \in
    {"input_variable", "constant_variable", "calculated_variable"}

\* a set operation whose value is one reference
IsSetOfReference(e) ==
  /\ e.kind = "operation"
  /\ OperationAt(e).type = "set"
  /\ IsStr(OperationAt(e).value)
  /\ IsReference(Parse(OperationAt(e).value.s))

\* a guard that is one comparison with a reference on its left side
IsGuardOnReference(e) ==
  /\ e.kind = "guard"
  /\ IsComparison(GuardOf(e))
  /\ IsReference(Parse(LeftText(GuardOf(e))))

\* the value a reference has in the domain its prefix names, and there alone
OwnDomainValue(expression, ctx) ==
  CASE expression.type = "input_variable" ->
         IF Has(ctx.inputs, expression.name)
           THEN Get(ctx.inputs, expression.name)
           ELSE ExprErr("not found")
    [] expression.type = "constant_variable" ->
         IF Has(ctx.constants, expression.name)
           THEN Get(ctx.constants, expression.name)
         ELSE IF Has(BUILTIN_CONSTANTS, expression.name)
           THEN Get(BUILTIN_CONSTANTS, expression.name)
         ELSE ExprErr("not found")
    [] expression.type = "calculated_variable" ->
         IF Has(ctx.calculated, expression.name)
           THEN Get(ctx.calculated, expression.name)
         ELSE IF Has(BUILTIN_OUTPUT_VARIABLES, expression.name)
           THEN Get(BUILTIN_OUTPUT_VARIABLES, expression.name)
         ELSE ExprErr("not found")

\* the value of a left side: the text as it is written is first looked up in
\* calculated, inputs and constants, and only then read as a reference
LeftSideValue(text, ctx) ==
  IF Has(ctx.calculated, text) THEN Get(ctx.calculated, text)
  ELSE IF Has(ctx.inputs, text) THEN Get(ctx.inputs, text)
  ELSE IF Has(ctx.constants, text) THEN Get(ctx.constants, text)
  ELSE OwnDomainValue(Parse(text), ctx)

\* a reference in an expression reads its own domain alone
ExpressionsReadOwnDomain ==
  \A i \in 1..Len(log) :
    IsSetOfReference(log[i]) =>
      LET Read(own) ==
            IF IsErr(own) THEN ~log[i].ok
            ELSE log[i].ok /\ log[i].value = own
      IN  Read(OwnDomainValue(Parse(OperationAt(log[i]).value.s),
                              ContextAt(log[i])))

\* the guard of event i was decided on the value left of its left side; a
\* left side that has no value raises
GuardDecidedOn(i, left) ==
  /\ IsErr(left) => ~log[i].ok
  /\ (IsNum(left) \/ IsBool(left)) =>
       log[i].value =
         GuardOutcome(evaluateComparison(left, GuardOf(log[i]).e[1].value,
                                         ContextAt(log[i]), NewSymbolRegistry))

(* C13: name resolution never crosses domains: $name reads only the inputs,
   $$name only the constants, then the built-in constants, a bare name only
   the calculated values, then the built-in variables; a reference whose name
   exists only in another domain raises an error.  This holds in expressions
   and on the left side of a comparison. *)
NamesNeverCrossDomains ==
  /\ ExpressionsReadOwnDomain
  /\ \A i \in 1..Len(log) :
       IsGuardOnReference(log[i]) =>
         GuardDecidedOn(i, OwnDomainValue(Parse(LeftText(GuardOf(log[i]))),
                                         ContextAt(log[i])))

(* C13, amended: in expressions name resolution never crosses domains.  The
   left side of a comparison is first looked up, as it is written, in the
   calculated values, then the inputs, then the constants, so that a bare
   name that is not a calculated value reads the input or the constant of
   that name; a left side found in none of them is resolved as an expression
   and reads its own domain alone. *)
NamesCrossDomainsOnLeftSideOnly ==
  /\ ExpressionsReadOwnDomain
  /\ \A i \in 1..Len(log) :
       IsGuardOnReference(log[i]) =>
         GuardDecidedOn(i, LeftSideValue(LeftText(GuardOf(log[i])),
                                        ContextAt(log[i])))

\* with x an input, a constant and a calculated value, "$x", "$$x" and "x"
\* were read as 1, 2 and 3; then a bare left side that names a constant alone
\* was compared
WitnessNamesCrossDomainsOnLeftSideOnly ==
  /\ Len(log) >= 5
  /\ log[2].ok /\ OperationAt(log[2]).value = Str("$x") /\ log[2].value = Num(1)
  /\ log[3].ok /\ OperationAt(log[3]).value = Str("$$x")
  /\ log[3].value = Num(2)
  /\ log[4].ok /\ OperationAt(log[4]).value = Str("x") /\ log[4].value = Num(3)
  /\ log[5].kind = "guard"
  /\ LeftText(GuardOf(log[5])) = "exemption"
  /\ log[5].value = Bool(TRUE)

----------------------------------------------------------------------------
\* the comparison a guard on one comparison makes
ComparisonOf(e) == GuardOf(e).e[1].value

\* the value left of the comparison of a guard
LeftOf(e) == LeftSideValue(LeftText(GuardOf(e)), ContextAt(e))

\* a string that carries the prefix of an input or of a constant
HasVariablePrefix(value) ==
  Parse(value.s).type \in {"input_variable", "constant_variable"}

\* a right side that is a string without a variable prefix
IsLiteralString(value) == IsStr(value) /\ ~HasVariablePrefix(value)

\* a guard that is one eq or ne comparison against a literal string
IsGuardOnLiteralString(e) ==
  /\ e.kind = "guard"
  /\ IsComparison(GuardOf(e))
  /\ \/ IsLiteralString(ComparisonOf(e).eq)
     \/ ComparisonOf(e).eq = Undefined /\ IsLiteralString(ComparisonOf(e).ne)

\* eq and ne by the type and the value of the two sides
LiteralOutcome(comparison, left) ==
  IF comparison.eq # Undefined THEN Bool(left = comparison.eq)
  ELSE Bool(left # comparison.ne)

(* C14: in a comparison a right-side string without a variable prefix is a
   literal and is never looked up as a variable or evaluated as an
   expression: {"$status": {"eq": "MARRIED"}} is true exactly when
   inputs.status is the string "MARRIED", whatever variables named MARRIED
   there are. *)
RightSideStringIsLiteral ==
  \A i \in 1..Len(log) :
    (IsGuardOnLiteralString(log[i]) /\ ~IsErr(LeftOf(log[i])))
      => /\ log[i].ok
         /\ log[i].value = LiteralOutcome(ComparisonOf(log[i]), LeftOf(log[i]))

(* C15: eq and ne accept strings: when the left side resolves to a string and
   the right side is a string, eq is true if and only if the two strings are
   equal, ne is the opposite, and no error is raised. *)
EqualityAcceptsStrings ==
  \A i \in 1..Len(log) :
    (IsGuardOnLiteralString(log[i]) /\ IsStr(LeftOf(log[i])))
      => /\ log[i].ok
         /\ ComparisonOf(log[i]).eq # Undefined =>
              log[i].value.b = (LeftOf(log[i]).s = ComparisonOf(log[i]).eq.s)
         /\ ComparisonOf(log[i]).eq = Undefined =>
              log[i].value.b = (LeftOf(log[i]).s # ComparisonOf(log[i]).ne.s)

\* the operand of the one ordering operator of a comparison
OrderingOperand(comparison) ==
  IF comparison.lt # Undefined THEN comparison.lt
  ELSE IF comparison.lte # Undefined THEN comparison.lte
  ELSE IF comparison.gt # Undefined THEN comparison.gt
  ELSE comparison.gte

\* a guard that is one lt, lte, gt or gte comparison whose right side is a
\* number, a boolean, or a reference to an input or a constant
IsOrderingGuard(e) ==
  /\ e.kind = "guard"
  /\ IsComparison(GuardOf(e))
  /\ ComparisonOf(e).eq = Undefined /\ ComparisonOf(e).ne = Undefined
  /\ OrderingOperand(ComparisonOf(e)) # Undefined
  /\ ~IsLiteralString(OrderingOperand(ComparisonOf(e)))

\* the value right of the ordering comparison of a guard
RightOf(e) ==
  IF IsStr(OrderingOperand(ComparisonOf(e)))
    THEN OwnDomainValue(Parse(OrderingOperand(ComparisonOf(e)).s), ContextAt(e))
    ELSE OrderingOperand(ComparisonOf(e))

(* C16: gt, lt, gte and lte raise an error whenever the left or the right
   side resolves to a Boolean or a String; they never yield a truth value for
   an operand that is not a number. *)
OrderingRejectsNonNumbers ==
  \A i \in 1..Len(log) :
    (IsOrderingGuard(log[i])
       /\ (NonNumber(LeftOf(log[i])) \/ NonNumber(RightOf(log[i]))))
      => ~log[i].ok

----------------------------------------------------------------------------
\* the children of the "and" / "or" node a guard is
ChildrenOf(e, operator) == Get(GuardOf(e).e, operator).a

IsGuardOn(e, operator) ==
  e.kind = "guard" /\ GuardOf(e).e[1].name = operator

\* one child condition of the guard of an event, evaluated alone
ChildValue(e, child) ==
  evaluateCondition(child, ContextAt(e), NewSymbolRegistry).v

\* the children up to k were evaluated and all but the last gave pass: the
\* guard is what child k gives, an error when child k raises
StoppedAt(e, children, k, pass) ==
  /\ \A j \in 1..(k - 1) : ChildValue(e, children[j]) = Bool(pass)
  /\ ChildValue(e, children[k]) # Bool(pass)
  /\ IF IsErr(ChildValue(e, children[k])) THEN ~e.ok
     ELSE e.ok /\ e.value = Bool(~pass)

\* "and" passes over true children, "or" over false ones; with no child
\* left the guard is pass
LeftToRight(e, children, pass) ==
  \/ /\ \A j \in 1..Len(children) : ChildValue(e, children[j]) = Bool(pass)
     /\ e.ok /\ e.value = Bool(pass)
  \/ \E k \in 1..Len(children) : StoppedAt(e, children, k, pass)

(* C17: and and or evaluate their children from left to right and stop at the
   first child that decides the result, the first false child of and, the
   first true child of or: the children after it are not evaluated, and an
   error they would raise is not raised.  not is the negation of its one
   child. *)
LogicalShortCircuit ==
  \A i \in 1..Len(log) :
    /\ IsGuardOn(log[i], "and") =>
         LeftToRight(log[i], ChildrenOf(log[i], "and"), TRUE)
    /\ IsGuardOn(log[i], "or") =>
         LeftToRight(log[i], ChildrenOf(log[i], "or"), FALSE)
    /\ IsGuardOn(log[i], "not") =>
         LET Negated(child) ==
               IF IsErr(child) THEN ~log[i].ok
               ELSE log[i].ok /\ log[i].value = Bool(~child.b)
         IN  Negated(ChildValue(log[i], Get(GuardOf(log[i]).e, "not")))

\* an and was false on its first child while its second child raises an
\* error
WitnessLogicalShortCircuit ==
  /\ log # << >>
  /\ LET e == log[Len(log)]
     IN  /\ IsGuardOn(e, "and")
         /\ Len(ChildrenOf(e, "and")) = 2
         /\ ChildValue(e, ChildrenOf(e, "and")[1]) = Bool(FALSE)
         /\ IsErr(ChildValue(e, ChildrenOf(e, "and")[2]))
         /\ e.ok /\ e.value = Bool(FALSE)

----------------------------------------------------------------------------
(* The symbol registry under every sequence of addSymbol and
   clearDynamicSymbols calls.  symbols is the registry, log holds the last
   call and the registry it was made on. *)

\* a built-in function, a built-in variable, a built-in constant, a new name
RegistryNames == {"max", "liability", "MAX_TAXABLE_INCOME", "income"}

SymbolTypes ==
  {"function", "input_variable", "constant_variable", "calculated_variable"}

SymbolSources == {"builtin", "context"}

RegistryInit ==
  /\ rule = Undefined
  /\ inputs = EmptyMap
  /\ symbols = NewSymbolRegistry
  /\ status = "idle"
  /\ context = Undefined
  /\ pc = Position(0, "start", 0, 0)
  /\ result = Undefined
  /\ log = << >>

RegistryCall(call, name, symbolType, source, ok) ==
  [call |-> call, name |-> name, symbolType |-> symbolType,
   source |-> source, ok |-> ok, before |-> symbols]

AddSymbol ==
  /\ \E name \in RegistryNames, symbolType \in SymbolTypes,
        source \in SymbolSources :
       \E r \in {addSymbol(symbols, name, symbolType, source, "number")} :
         /\ symbols' = r.reg
         /\ log' = <<RegistryCall("addSymbol", name, symbolType, source, r.ok)>>
  /\ UNCHANGED <<rule, inputs, status, context, pc, result>>

ClearDynamicSymbols ==
  /\ symbols' = clearDynamicSymbols(symbols)
  /\ log' = <<RegistryCall("clearDynamicSymbols", "", "", "", TRUE)>>
  /\ UNCHANGED <<rule, inputs, status, context, pc, result>>

RegistryNext ==
  \/ AddSymbol
  \/ ClearDynamicSymbols

RegistrySpec == RegistryInit /\ [][RegistryNext]_vars

IsFunction(reg, name) == Get(reg, name).symbolType = "function"

\* the last call was an addSymbol of a name registered as the other kind, or
\* of a name registered as a built-in function
IsConflictingAdd(c) ==
  /\ c.call = "addSymbol"
  /\ Has(c.before, c.name)
  /\ \/ IsFunction(c.before, c.name) # (c.symbolType = "function")
     \/ /\ Get(c.before, c.name).source = "builtin"
        /\ IsFunction(c.before, c.name)

(* C18: addSymbol raises a conflict error and leaves the registry unchanged
   when the name is registered as a function and is added as a variable, when
   it is registered as a variable and is added as a function, and when it
   redefines a built-in function; no addSymbol call changes a registered name
   between function and variable. *)
SymbolKindConflictRaises ==
  \A i \in 1..Len(log) :
    /\ IsConflictingAdd(log[i]) => ~log[i].ok /\ symbols = log[i].before
    /\ log[i].call = "addSymbol" =>
         \A n \in Keys(log[i].before) :
           /\ Has(symbols, n)
           /\ IsFunction(symbols, n) = IsFunction(log[i].before, n)

\* the built-in variable liability, shadowed by a context entry, was added
\* as a function
WitnessSymbolKindConflictRaises ==
  /\ log # << >>
  /\ log[1].call = "addSymbol"
  /\ log[1].name = "liability"
  /\ log[1].symbolType = "function"
  /\ Get(log[1].before, "liability").source = "context"
  /\ ~log[1].ok

(* C19: after clearDynamicSymbols no symbol of the context remains and every
   built-in symbol registered at construction, function, constant or
   variable, is still registered as a built-in symbol, whatever addSymbol and
   clearDynamicSymbols calls came before, shadowing of a built-in constant
   or variable by a context entry of the same kind included. *)
ClearKeepsBuiltins ==
  \A i \in 1..Len(log) :
    log[i].call = "clearDynamicSymbols" =>
      /\ \A j \in 1..Len(symbols) : symbols[j].value.source # "context"
      /\ \A n \in Keys(NewSymbolRegistry) :
           /\ Has(symbols, n)
           /\ Get(symbols, n).source = "builtin"

----------------------------------------------------------------------------
(* One expression evaluator over every sequence of evaluate calls.  symbols
   is the registry of the evaluator, log holds the last call and its
   outcome. *)

ExpressionTexts ==
  {"$income", "$$MAX_TAXABLE_INCOME", "liability", "taxable", "max",
   "max(taxable, 0)", "liability(1)", "taxable + 1"}

\* contexts whose entries shadow the built-in constant, the built-in
\* variable and a built-in function
ExpressionContexts ==
  {[inputs |-> i, constants |-> c, calculated |-> v, tables |-> Undefined] :
     i \in {EmptyMap, <<Entry("income", Num(5))>>, <<Entry("max", Num(1))>>},
     c \in {EmptyMap, <<Entry("MAX_TAXABLE_INCOME", Num(7))>>},
     v \in {EmptyMap, <<Entry("taxable", Num(4))>>,
            <<Entry("liability", Num(3))>>}}

EvaluatorInit ==
  /\ rule = Undefined
  /\ inputs = EmptyMap
  /\ symbols = NewSymbolRegistry
  /\ status = "idle"
  /\ context = Undefined
  /\ pc = Position(0, "start", 0, 0)
  /\ result = Undefined
  /\ log = << >>

\* expressionEvaluator.evaluate(text, ctx) on the evaluator
EvaluateExpression ==
  /\ \E text \in ExpressionTexts, ctx \in ExpressionContexts :
       \E r \in {ExpressionEvaluate(Parse(text), ctx, symbols)} :
         /\ symbols' = r.reg
         /\ log' = <<[call |-> "evaluate", text |-> text, context |-> ctx,
                      before |-> symbols, value |-> r.v]>>
  /\ UNCHANGED <<rule, inputs, status, context, pc, result>>

EvaluatorSpec == EvaluatorInit /\ [][EvaluateExpression]_vars

\* the outcome of the same call on a new evaluator
OnNewEvaluator(c) ==
  ExpressionEvaluate(Parse(c.text), c.context, NewSymbolRegistry).v

(* C20: on one evaluator the outcome of an evaluate call, the value returned
   or the kind of error raised, depends on the arguments of the call alone:
   it is the outcome of the call on a new evaluator, whatever calls were made
   on the evaluator before. *)
EvaluateDependsOnArgumentsOnly ==
  \A i \in 1..Len(log) : log[i].value = OnNewEvaluator(log[i])

----------------------------------------------------------------------------
(* Rule validator (validator/validator.ts and validator/schemas).  An issue
   is [severity, message]; a validator returns the issues in the order the
   code pushes them. *)

Issue(severity, message) == [severity |-> severity, message |-> message]
ErrorIssue(message) == Issue("error", message)
WarningIssue(message) == Issue("warning", message)
IssueIf(found, issue) == IF found THEN <<issue>> ELSE << >>

\* issues.push(...list) over an array of lists
RECURSIVE Flatten(_)
Flatten(lists) ==
  IF Len(lists) = 0 THEN << >> ELSE Head(lists) \o Flatten(Tail(lists))

\* !value
Falsy(v) ==
  \/ v \in {Undefined, Null, Bool(FALSE), Str("")}
  \/ IsNum(v) /\ v.n = 0

\* RULE_ONLY_IDENTIFIER_REGEX /^[a-z][a-z0-9_]*$/ on the names the model's
\* rules are written with; "Total", "$income" and "taxable + 1" do not match
RuleOnlyIdentifiers ==
  {"income", "senior", "status", "x", "exemption", "is_active", "taxable",
   "relief", "liability", "eligible", "share", "late", "hit", "total",
   "brackets", "income_tax", "flat", "nowhere", "max", "label", "missing"}

isRuleOnlyIdentifier(identifier) == identifier \in RuleOnlyIdentifiers

\* validateValueReference: the leading "$$" or "$" of a text, and the
\* parentheses of a call, are read off the parse of the text
validateValueReference(value) ==
  IF IsNum(value) \/ IsBool(value) THEN << >>
  ELSE IF ~IsStr(value)
    THEN <<ErrorIssue("Value must be a string, number, or boolean")>>
  ELSE IF Parse(value.s).type = "constant_variable"
    THEN IssueIf(~isRuleOnlyIdentifier(Parse(value.s).name),
                 ErrorIssue("Invalid constant reference"))
  ELSE IF Parse(value.s).type = "input_variable"
    THEN IssueIf(~isRuleOnlyIdentifier(Parse(value.s).name),
                 ErrorIssue("Invalid input variable reference"))
  ELSE IssueIf(~isRuleOnlyIdentifier(value.s) /\ Parse(value.s).type # "call",
               ErrorIssue("Invalid calculated variable reference"))

\* rule.tables || [] as a set of names
TableNames(r) == {OrEmpty(r.tables)[i].name : i \in 1..Len(OrEmpty(r.tables))}

validateOperation(r, operation) ==
  IssueIf(operation.type \notin OPERATION_TYPES,
          ErrorIssue("Invalid operation type"))
  \o IssueIf(~isRuleOnlyIdentifier(operation.target),
             ErrorIssue("Invalid operation target"))
  \o (IF operation.type = "lookup"
        THEN (IF operation.table = ""
                THEN <<ErrorIssue("Lookup operation requires a table")>>
                ELSE IssueIf(operation.table \notin TableNames(r),
                             ErrorIssue("Undefined table")))
             \o IssueIf(Falsy(operation.value),
                        ErrorIssue("Lookup operation requires a value"))
        ELSE << >>)
  \o (IF operation.value # Undefined
        THEN IF operation.value = Null
               THEN <<ErrorIssue("Operation value cannot be null")>>
               ELSE validateValueReference(operation.value)
        ELSE IssueIf(operation.type # "lookup",
                     ErrorIssue("Operation requires a value")))

validateConditionalCase(r, caseItem) ==
  IF Len(caseItem.operations) = 0
    THEN <<ErrorIssue("Case must have at least one operation")>>
    ELSE Flatten([i \in 1..Len(caseItem.operations) |->
                    validateOperation(r, caseItem.operations[i])])

\* step.cases.filter((c) => !c.when) as the indexes of the guard-less cases
DefaultCases(cases) == {i \in 1..Len(cases) : cases[i].when = Undefined}

\* a validateFlowStep that places no condition on the guard-less cases
validateFlowStepAnyDefault(r, step) ==
  LET hasOperations ==
        step.operations # Undefined /\ Len(step.operations.a) > 0
      hasCases == step.cases # Undefined /\ Len(step.cases.a) > 0
  IN  IssueIf(~hasOperations /\ ~hasCases,
              ErrorIssue("Flow step must have either operations or cases"))
      \o IssueIf(hasOperations /\ hasCases,
                 ErrorIssue("Flow step cannot have both operations and cases"))
      \o (IF step.operations # Undefined
            THEN Flatten([i \in 1..Len(step.operations.a) |->
                            validateOperation(r, step.operations.a[i])])
            ELSE << >>)
      \o (IF step.cases # Undefined
            THEN Flatten([i \in 1..Len(step.cases.a) |->
                            validateConditionalCase(r, step.cases.a[i])])
            ELSE << >>)

validateFlowStep(r, step) ==
  LET hasOperations ==
        step.operations # Undefined /\ Len(step.operations.a) > 0
      hasCases == step.cases # Undefined /\ Len(step.cases.a) > 0
  IN  IssueIf(~hasOperations /\ ~hasCases,
              ErrorIssue("Flow step must have either operations or cases"))
      \o IssueIf(hasOperations /\ hasCases,
                 ErrorIssue("Flow step cannot have both operations and cases"))
      \o (IF step.operations # Undefined
            THEN Flatten([i \in 1..Len(step.operations.a) |->
                            validateOperation(r, step.operations.a[i])])
            ELSE << >>)
      \o (IF step.cases # Undefined
            THEN Flatten([i \in 1..Len(step.cases.a) |->
                            validateConditionalCase(r, step.cases.a[i])])
                 \o IssueIf(Cardinality(DefaultCases(step.cases.a)) > 1,
                            ErrorIssue("Only one default case (without when) allowed per step"))
                 \o IssueIf(Cardinality(DefaultCases(step.cases.a)) = 1
                            /\ Len(step.cases.a) \notin DefaultCases(step.cases.a),
                            ErrorIssue("Default case must be the last case in the array"))
            ELSE << >>)

validateOperationsAndFlow(r) ==
  IF Len(r.flow) = 0
    THEN <<ErrorIssue("Rule must have at least one flow step")>>
    ELSE Flatten([i \in 1..Len(r.flow) |-> validateFlowStep(r, r.flow[i])])

\* Object.keys(operator) of a comparison: the operators that are present (a
\* comparison of the model has no key outside COMPARISON_OPERATORS)
OperatorKeys(operator) ==
  {op \in {"eq", "ne", "gt", "lt", "gte", "lte"} : operator[op] # Undefined}

validateComparisonOperator(operator) ==
  LET operatorType == CHOOSE op \in OperatorKeys(operator) : TRUE
  IN  IF Cardinality(OperatorKeys(operator)) # 1
        THEN <<ErrorIssue("Comparison operator must have exactly one operator key")>>
        ELSE IssueIf(operator[operatorType] = Null,
                     ErrorIssue("Comparison value cannot be null"))
             \o IssueIf(operatorType \in {"gt", "lt", "gte", "lte"}
                        /\ ~IsNum(operator[operatorType])
                        /\ ~IsStr(operator[operatorType]),
                        ErrorIssue("Numeric comparison operator requires a number or variable reference"))

RECURSIVE validateConditionalExpression(_)

\* reached only when one of the keys is a logical operator: with exactly one
\* key, that key is the logical operator

validateLogicalExpression(expression) ==
  LET operatorType == expression.e[1].name
      conditions == expression.e[1].value
  IN  IF Len(expression.e) # 1
        THEN <<ErrorIssue("Logical expression must have exactly one operator key")>>
      ELSE IF operatorType \in {"and", "or"}
        THEN IF conditions.k # "array" \/ Len(conditions.a) = 0
               THEN <<ErrorIssue("Logical operator requires an array of conditions")>>
               ELSE Flatten([i \in 1..Len(conditions.a) |->
                               validateConditionalExpression(conditions.a[i])])
      ELSE IF Falsy(conditions)
        THEN <<ErrorIssue("NOT operator requires a condition")>>
        ELSE validateConditionalExpression(conditions)

\* every key of a comparison is checked on its own: a comparison that names
\* several variables raises no issue (the value under a key is always an
\* operator object in the conditions of the model)
validateConditionalExpression(expression) ==
  IF expression.k # "object"
    THEN <<ErrorIssue("Conditional expression must be an object")>>
  ELSE IF isLogicalCondition(expression)
    THEN validateLogicalExpression(expression)
  ELSE Flatten([i \in 1..Len(expression.e) |->
                  validateComparisonOperator(expression.e[i].value)])

\* the guards of one step, in case order
GuardsOf(step) ==
  IF step.cases = Undefined THEN << >>
  ELSE [i \in 1..Len(step.cases.a) |->
          IF Falsy(step.cases.a[i].when) THEN << >>
          ELSE validateConditionalExpression(step.cases.a[i].when)]

\* validateConditionalLogic: the guards of the cases of the flow; the rules
\* of the model carry no filing schedules
validateConditionalLogic(r) ==
  Flatten([i \in 1..Len(r.flow) |-> Flatten(GuardsOf(r.flow[i]))])

\* VALID_SCHEMA_TYPES
VALID_SCHEMA_TYPES == {"number", "string", "boolean", "array", "object"}

\* validateVariableSchema: the type and the bounds of a declaration (the
\* declarations of the model carry no pattern and no items)
validateVariableSchema(schema) ==
  LET minimum == IF "minimum" \in DOMAIN schema THEN schema.minimum
                 ELSE Undefined
      maximum == IF "maximum" \in DOMAIN schema THEN schema.maximum
                 ELSE Undefined
  IN  IssueIf(schema.type \notin VALID_SCHEMA_TYPES, ErrorIssue("Invalid type"))
      \o IssueIf(minimum # Undefined /\ ~IsNum(minimum),
                 ErrorIssue("Minimum must be a number"))
      \o IssueIf(maximum # Undefined /\ ~IsNum(maximum),
                 ErrorIssue("Maximum must be a number"))
      \o IssueIf(IsNum(minimum) /\ IsNum(maximum) /\ NumLe(maximum, minimum),
                 ErrorIssue("Minimum must be less than maximum"))

\* validateConstant, validateInput, validateOutput on the i-th name of the
\* constants, inputs and outputs taken together, in that order
validateVariables(r) ==
  LET constants == OrEmpty(r.constants)
      names == [i \in 1..Len(constants) |-> constants[i].name]
                 \o [i \in 1..Len(r.inputs) |-> r.inputs[i].name]
                 \o [i \in 1..Len(r.outputs) |-> r.outputs[i].name]
      Defined(i) == \E j \in 1..(i - 1) : names[j] = names[i]
      Declared(i) ==
        IssueIf(~isRuleOnlyIdentifier(names[i]), ErrorIssue("Invalid identifier"))
        \o IssueIf(Defined(i), ErrorIssue("Name is already defined"))
  IN  Flatten([i \in 1..Len(constants) |->
                 Declared(i)
                 \o IssueIf(~IsNum(constants[i].value) /\ ~IsBool(constants[i].value),
                            ErrorIssue("Constant must be a number or boolean"))
                 \o IssueIf(constants[i].value = Null,
                            ErrorIssue("Constant cannot be null"))])
      \o Flatten([i \in 1..Len(r.inputs) |->
                    Declared(Len(constants) + i)
                    \o validateVariableSchema(r.inputs[i].value)])
      \o Flatten([i \in 1..Len(r.outputs) |->
                    Declared(Len(constants) + Len(r.inputs) + i)
                    \o validateVariableSchema(r.outputs[i].value)])

\* a bound of a bracket that is a number or $$MAX_TAXABLE_INCOME
IsBracketBound(bound) == IsNum(bound) \/ bound = Str("$$MAX_TAXABLE_INCOME")

validateTableBracket(bracket) ==
  IssueIf(~IsBracketBound(bracket.min), ErrorIssue("Invalid bracket min value"))
  \o IssueIf(~IsBracketBound(bracket.max),
             ErrorIssue("Invalid bracket max value"))
  \o (IF ~IsNum(bracket.rate) THEN <<ErrorIssue("Invalid bracket rate")>>
      ELSE IssueIf(NumLt(bracket.rate, Num(0)),
                   WarningIssue("Negative tax rate"))
           \o IssueIf(NumLt(Num(1), bracket.rate),
                      WarningIssue("Tax rate greater than 100%")))
  \o (IF ~IsNum(bracket.base_tax)
        THEN <<ErrorIssue("Invalid bracket base_tax")>>
        ELSE IssueIf(NumLt(bracket.base_tax, Num(0)),
                     WarningIssue("Negative base tax")))
  \o IssueIf(IsNum(bracket.max)
             /\ (~IsNum(bracket.min) \/ NumLe(bracket.max, bracket.min)),
             ErrorIssue("Bracket min must be less than max"))
  \o Flatten([i \in 1..4 |->
                IssueIf(<<bracket.min, bracket.max, bracket.rate,
                          bracket.base_tax>>[i] = Null,
                        ErrorIssue("Bracket field cannot be null"))])

\* validateTables, for tables that have at least one bracket
validateTables(r) ==
  LET tables == OrEmpty(r.tables)
      Valid(brackets) ==
        SelectSeq(brackets,
                  LAMBDA b : IsBracketBound(b.min) /\ IsBracketBound(b.max))
      Contiguous(valid) ==
        Flatten([i \in 1..(Len(valid) - 1) |->
                   IssueIf(valid[i].max # valid[i + 1].min,
                           WarningIssue("Gap or overlap between brackets"))])
        \o IssueIf(Len(valid) > 0 /\ valid[1].min # Num(0),
                   WarningIssue("First bracket should start at 0"))
  IN  Flatten([t \in 1..Len(tables) |->
                 IssueIf(~isRuleOnlyIdentifier(tables[t].name),
                         ErrorIssue("Invalid table identifier"))
                 \o IssueIf(\E u \in 1..(t - 1) : tables[u].name = tables[t].name,
                            ErrorIssue("Duplicate table name"))
                 \o Flatten([i \in 1..Len(tables[t].brackets) |->
                               validateTableBracket(tables[t].brackets[i])])
                 \o Contiguous(Valid(tables[t].brackets))])

\* VERSION_REGEX and ISO_COUNTRY_CODE_REGEX on the texts of the model
VersionTexts == {"1.0.0"}
CountryCodes == {"PH", "US"}
VALID_TAXPAYER_TYPES ==
  {"INDIVIDUAL", "CORPORATION", "PARTNERSHIP", "SOLE_PROPRIETORSHIP"}

\* validateMetadata under the default configuration
\* (allowUnknownTaxpayerTypes: false); the rules of the model carry no dates,
\* references, author or category
validateMetadata(r) ==
  IssueIf(r.version.s \notin VersionTexts, ErrorIssue("Invalid version format"))
  \o IssueIf(~IsStr(r.name) \/ r.name = Str(""),
             ErrorIssue("Name must be a non-empty string"))
  \o IssueIf(r.jurisdiction.s \notin CountryCodes,
             ErrorIssue("Invalid jurisdiction code"))
  \o (IF IsStr(r.taxpayer_type) /\ r.taxpayer_type.s \in VALID_TAXPAYER_TYPES
        THEN << >>
      ELSE IF IsStr(r.taxpayer_type)
        THEN <<WarningIssue("Unknown taxpayer type")>>
        ELSE <<ErrorIssue("Taxpayer type must be a string")>>)

\* RuleValidator.validateStructure: a field a document leaves out is
\* Undefined; flow is an array and the sections are objects in every rule of
\* the model
validateStructure(r) ==
  IssueIf(r.version = Undefined, ErrorIssue("Missing required field: $version"))
  \o IssueIf(r.name = Undefined, ErrorIssue("Missing required field: name"))
  \o IssueIf(r.jurisdiction = Undefined,
             ErrorIssue("Missing required field: jurisdiction"))
  \o IssueIf(r.taxpayer_type = Undefined,
             ErrorIssue("Missing required field: taxpayer_type"))

HasErrors(issues) == \E i \in 1..Len(issues) : issues[i].severity = "error"

\* validateRule(rule): RuleValidator.validate in the default mode; the
\* schema validators run only on a rule whose structure raised no error
validateRule(r) ==
  IF HasErrors(validateStructure(r)) THEN validateStructure(r)
  ELSE validateStructure(r) \o validateMetadata(r) \o validateVariables(r)
       \o validateTables(r) \o validateOperationsAndFlow(r)
       \o validateConditionalLogic(r)

RuleValidationError(issues) ==
  [k |-> "err", cls |-> "RuleValidationError", msg |-> "Rule validation failed",
   issues |-> issues]

\* an opentax that raises only when every issue is an error
opentaxUnlessWarned(r) ==
  IF Len(validateRule(r)) > 0
     /\ \A i \in 1..Len(validateRule(r)) : validateRule(r)[i].severity = "error"
    THEN [ok |-> FALSE, err |-> RuleValidationError(validateRule(r))]
    ELSE [ok |-> TRUE, err |-> Undefined]

\* opentax(config): [ok, err]; ok when an instance is returned
opentax(r) ==
  IF HasErrors(validateRule(r))
    THEN [ok |-> FALSE, err |-> RuleValidationError(validateRule(r))]
    ELSE [ok |-> TRUE, err |-> Undefined]

----------------------------------------------------------------------------
(* opentax({rule}) followed by one calculate(inputs) of the instance: the
   rule is validated first, and an instance evaluates it on a RuleEvaluator
   that opentax constructed with the built-ins *)

OpentaxTables ==
  << [name |-> "brackets",
      brackets |-> << Bracket(Num(0), Num(10), Rat(1, 10), Num(0)),
                      Bracket(Num(10), Num(20), Rat(1, 5), Num(1)),
                      Bracket(Num(20), Str("$$MAX_TAXABLE_INCOME"),
                              Rat(1, 4), Num(3)) >>] >>

\* a comparison object over several variables
Comparisons(entries) == Obj(entries)

IncomeAbove(n) == Entry("$income", [NoComparison EXCEPT !.gt = Num(n)])
SeniorIs(b) == Entry("$senior", [NoComparison EXCEPT !.eq = Bool(b)])

\* cases guarded by one condition, closed by a default case
GuardedStep(condition) ==
  CasesStep(<< Case(condition, << Operation("set", "relief", Num(1)) >>),
               Case(Undefined, << Operation("set", "relief", Num(3)) >>) >>)

DefaultCase(n) == Case(Undefined, << Operation("set", "relief", Num(n)) >>)

OpentaxFlows ==
  { << OperationsStep(<< Operation("set", "taxable", Str("$income")),
                         Operation("subtract", "taxable", Str("$$exemption")) >>),
       GuardedStep(Comparison("$income", "gt", Num(20))) >>,
    << OperationsStep(<< Lookup("liability", "brackets", Str("$income")) >>) >>,
    << GuardedStep(And(<< Comparison("$income", "gt", Num(0)),
                          Comparison("$senior", "eq", Bool(FALSE)) >>)) >>,
    \* operations and cases in one step
    << [operations |-> Arr(<< Operation("set", "liability", Str("$income")) >>),
        cases |-> Arr(<< Case(Comparison("liability", "gt", Num(10)),
                              << Operation("multiply", "liability",
                                           Num(2)) >>) >>)] >>,
    \* guard-less cases that are not last
    << CasesStep(<< DefaultCase(5), DefaultCase(6) >>) >>,
    << CasesStep(<< DefaultCase(3),
                    Case(Comparison("$income", "gte", Num(0)),
                         << Operation("set", "late", Num(1)) >>) >>) >>,
    << CasesStep(<< Case(Comparison("$income", "gte", Num(25)),
                         << Operation("set", "relief", Num(1)) >>),
                    DefaultCase(3),
                    Case(Comparison("$income", "gte", Num(0)),
                         << Operation("set", "late", Num(1)) >>) >>),
       CasesStep(<< DefaultCase(5), DefaultCase(6), DefaultCase(7) >>) >>,
    \* comparisons over several variables, over several operators
    << GuardedStep(Comparisons(<< IncomeAbove(20), SeniorIs(TRUE) >>)) >>,
    << GuardedStep(Comparisons(<< SeniorIs(TRUE), IncomeAbove(20) >>)) >>,
    << GuardedStep(Comparisons(
         << Entry("$income", [NoComparison EXCEPT !.gt = Num(0),
                                                  !.lt = Num(10)]) >>)) >>,
    << GuardedStep(Obj(<< Entry("and", Arr(<< Comparison("$income", "gt",
                                                          Num(0)) >>)),
                          IncomeAbove(20) >>)) >>,
    \* steps and operations the validator has an issue with
    << >>,
    << [operations |-> Undefined, cases |-> Undefined] >>,
    << OperationsStep(<< Operation("set", "Total", Str("taxable + 1")) >>) >>,
    << OperationsStep(<< Lookup("liability", "nowhere", Str("$income")) >>) >>
  }

OpentaxRuleWith(version, jurisdiction, taxpayer_type, flowSteps) ==
  [version |-> version,
   name |-> Str("Income tax"),
   jurisdiction |-> Str(jurisdiction),
   taxpayer_type |-> Str(taxpayer_type),
   constants |-> Obj(<<Entry("exemption", Num(10))>>),
   tables |-> Arr(OpentaxTables),
   inputs |-> <<Entry("income", Declaration("number", Undefined)),
                Entry("senior", Declaration("boolean", Bool(FALSE)))>>,
   outputs |-> <<Entry("liability", [type |-> "number"]),
                 Entry("eligible", [type |-> "boolean"])>>,
   validate |-> Undefined,
   flow |-> flowSteps]

OpentaxRules ==
  {OpentaxRuleWith(version, jurisdiction, taxpayer_type, f) :
     version \in {Str("1.0.0"), Str("1.0"), Undefined},
     jurisdiction \in {"PH", "INVALID"},
     taxpayer_type \in {"INDIVIDUAL", "ALIEN"},
     f \in OpentaxFlows}

OpentaxInputMaps ==
  {EmptyMap}
    \cup {<<Entry("income", Num(v))>> : v \in {5, 25}}
    \cup {<<Entry("income", Num(v)), Entry("senior", Bool(TRUE))>> :
            v \in {5, 25}}

\* status "config": opentax was not called yet
OpentaxInit ==
  /\ rule \in OpentaxRules
  /\ inputs \in OpentaxInputMaps
  /\ symbols = NewSymbolRegistry
  /\ status = "config"
  /\ context = Undefined
  /\ pc = Position(0, "start", 0, 0)
  /\ result = Undefined
  /\ log = << >>

\* opentax({rule}): a RuleValidationError, or an instance whose calculate
\* may be called ("idle")
Opentax ==
  /\ status = "config"
  /\ \E made \in {opentax(rule)} :
       IF made.ok
         THEN status' = "idle" /\ result' = result
         ELSE status' = "rejected" /\ result' = made.err
  /\ UNCHANGED <<rule, inputs, symbols, context, pc, log>>

\* calculate(inputs) is evaluator.evaluate(rule, inputs), whose context the
\* result of calculate is read from
OpentaxNext ==
  \/ Opentax
  \/ Begin
  \/ ExecuteStepOperation
  \/ EvaluateCase
  \/ ExecuteCaseOperation
  \/ Return

OpentaxSpec == OpentaxInit /\ [][OpentaxNext]_vars

\* the messages of the error-severity issues a rejected rule was refused with
Refusals ==
  {result.issues[i].message :
     i \in {j \in 1..Len(result.issues) : result.issues[j].severity = "error"}}

\* C21: whenever the validator reports at least one error-severity issue
\* for the rule, opentax raises a RuleValidationError that carries it: no
\* instance exists, calculate is never entered and no guard or operation of
\* the flow runs
ErrorIssueRefusesTheRule ==
  HasErrors(validateRule(rule)) /\ status # "config" =>
    /\ status = "rejected"
    /\ result = RuleValidationError(validateRule(rule))
    /\ context = Undefined
    /\ log = << >>

\* a rule refused for an issue of its flow alone, next to a warning
WitnessErrorIssueRefusesTheRule ==
  /\ status = "rejected"
  /\ Refusals = {"Flow step cannot have both operations and cases"}
  /\ \E i \in 1..Len(result.issues) : result.issues[i].severity = "warning"

\* C22: no evaluation executes both a step's own operations and the
\* operations of one of that step's cases
NoStepRunsOperationsAndCases ==
  \A i \in 1..Len(log) : \A j \in 1..Len(log) :
    log[i].kind = "operation" /\ log[j].kind = "operation"
    /\ log[i].step = log[j].step
      => ~(log[i].case = 0 /\ log[j].case > 0)

\* a step whose case list has a guard-less case before its last case
GuardlessBeforeLast(step) ==
  /\ step.cases # Undefined
  /\ \E i \in 1..(Len(step.cases.a) - 1) : step.cases.a[i].when = Undefined

MisplacedSteps ==
  {s \in 1..Len(rule.flow) : GuardlessBeforeLast(rule.flow[s])}

\* the issues a refused rule carries about guard-less cases
DefaultCaseIssues ==
  {i \in 1..Len(result.issues) :
     result.issues[i] \in
       {ErrorIssue("Only one default case (without when) allowed per step"),
        ErrorIssue("Default case must be the last case in the array")}}

\* C23: a rule with a step whose case list has more than one guard-less case,
\* or a guard-less case that is not last, is refused by opentax and never
\* evaluated; when its structure let the flow be validated, the
\* RuleValidationError carries an error-severity issue for each such step
MisplacedDefaultIsRefused ==
  MisplacedSteps # {} /\ status # "config" =>
    /\ status = "rejected"
    /\ HasErrors(result.issues)
    /\ log = << >>
    /\ ~HasErrors(validateStructure(rule)) =>
         Cardinality(DefaultCaseIssues) >= Cardinality(MisplacedSteps)

\* a rule refused for nothing but a default case that is not last
WitnessMisplacedDefaultIsRefused ==
  /\ status = "rejected"
  /\ MisplacedSteps = {1}
  /\ Refusals = {"Default case must be the last case in the array"}

\* the outcomes of the comparisons of the guard of event e, each taken alone
EachComparison(e) ==
  [k \in 1..Len(GuardOf(e).e) |->
     GuardOutcome(evaluateCondition(Obj(<<GuardOf(e).e[k]>>), ContextAt(e),
                                    NewSymbolRegistry))]

\* C29: a condition of a rule that passed validation is evaluated in full: a
\* guard that is a comparison over several variables holds exactly when all
\* of its comparisons hold
AcceptedConditionsEvaluatedInFull ==
  \A i \in 1..Len(log) :
    log[i].kind = "guard" /\ ~isLogicalCondition(GuardOf(log[i]))
    /\ Len(GuardOf(log[i]).e) > 1
      => log[i].value =
           Bool(\A k \in 1..Len(GuardOf(log[i]).e) :
                  EachComparison(log[i])[k] = Bool(TRUE))

----------------------------------------------------------------------------
(* Rules with conditionally required inputs and with validation rules: one
   evaluate(rule, inputs) on a new RuleEvaluator *)

\* when guards of the input expenses: on an input that is always declared
\* before it, on an input that is declared after it, on an input that no
\* rule declares
InputGuards ==
  {Undefined,
   Comparison("$income", "gt", Num(10)),
   Comparison("$senior", "eq", Bool(TRUE)),
   Comparison("$missing", "eq", Num(1))}

ValidationRule(when, error) == [when |-> when, error |-> error]

ValidationRulePool ==
  << ValidationRule(Comparison("$income", "gt", Num(20)), "Income too high"),
     ValidationRule(Comparison("$income", "gt", Num(0)), "Income not allowed"),
     ValidationRule(Comparison("$missing", "eq", Num(1)), "Missing is set") >>

\* the validate sections: none, one rule, two different rules in both orders
ValidateSections ==
  {Undefined}
    \cup {Arr(<<ValidationRulePool[i]>>) : i \in 1..Len(ValidationRulePool)}
    \cup {Arr(<<ValidationRulePool[p[1]], ValidationRulePool[p[2]]>>) :
            p \in {q \in (1..Len(ValidationRulePool))
                              \X (1..Len(ValidationRulePool)) : q[1] # q[2]}}

ValidatedFlow ==
  << OperationsStep(<< Operation("set", "taxable", Str("$income")) >>),
     CasesStep(<< Case(Comparison("$income", "gt", Num(20)),
                       << Operation("set", "relief", Num(1)) >>),
                  Case(Undefined, << Operation("set", "relief", Num(3)) >>) >>) >>

ValidatedRuleWith(when, default, validate) ==
  [constants |-> Obj(<<Entry("exemption", Num(10))>>),
   tables |-> Undefined,
   inputs |-> <<Entry("income", Declaration("number", Undefined)),
                Entry("expenses",
                      [Declaration("number", default) EXCEPT !.when = when]),
                Entry("senior", Declaration("boolean", Bool(FALSE)))>>,
   outputs |-> <<Entry("liability", [type |-> "number"])>>,
   validate |-> validate,
   flow |-> ValidatedFlow]

ValidatedRules ==
  {ValidatedRuleWith(when, default, validate) :
     when \in InputGuards, default \in {Undefined, Num(0)},
     validate \in ValidateSections}

ValidatedInputMaps ==
  {income \o expenses \o senior :
     income \in {EmptyMap, <<Entry("income", Num(-5))>>,
                 <<Entry("income", Num(15))>>, <<Entry("income", Num(25))>>},
     expenses \in {EmptyMap, <<Entry("expenses", Num(7))>>},
     senior \in {EmptyMap, <<Entry("senior", Bool(TRUE))>>}}

ValidationInit ==
  /\ rule \in ValidatedRules
  /\ inputs \in ValidatedInputMaps
  /\ symbols = NewSymbolRegistry
  /\ status = "idle"
  /\ context = Undefined
  /\ pc = Position(0, "start", 0, 0)
  /\ result = Undefined
  /\ log = << >>

ValidationSpec == ValidationInit /\ [][Next]_vars

\* the input of the rule that is declared with a when guard
GuardedInput == rule.inputs[2]

\* tempContext of createContext when the guard of the guarded input is
\* evaluated: no input before it has a default
GuardContext ==
  [inputs |-> inputs, constants |-> OrEmpty(rule.constants),
   calculated |-> EmptyMap, tables |-> Obj(EmptyMap)]

\* the outcome of the when guard of the guarded input, on the caller's inputs
GuardValue ==
  ConditionalEvaluate(GuardedInput.value.when, GuardContext, symbols).v

\* an evaluate whose rule guards an input that the caller left out, the
\* inputs before it being provided
OmitsGuardedInput ==
  /\ status = "idle"
  /\ GuardedInput.value.when # Undefined
  /\ Has(inputs, "income")
  /\ ~Has(inputs, GuardedInput.name)

\* C24: an input whose when guard cannot be evaluated is required: left out
\* and without a default, evaluate raises the missing-required-input error;
\* an input whose guard is false may be left out
UnevaluableGuardRequiresInput ==
  [][OmitsGuardedInput =>
       /\ IsErr(GuardValue) /\ GuardedInput.value.default = Undefined
            => status' = "thrown"
               /\ result' = RuleErr("Required input not provided")
       /\ GuardValue = Bool(FALSE)
            => result' # RuleErr("Required input not provided")]_vars

\* the guard read an input that the rule does not declare, and evaluate
\* raised for the guarded input that was left out
WitnessUnevaluableGuardRequiresInput ==
  /\ status = "thrown"
  /\ result = RuleErr("Required input not provided")
  /\ GuardedInput.value.when = Comparison("$missing", "eq", Num(1))
  /\ GuardedInput.value.default = Undefined
  /\ Has(inputs, "income")
  /\ ~Has(inputs, GuardedInput.name)

\* the context createContext returned: the inputs with the defaults applied,
\* nothing calculated yet
CreatedContext ==
  [inputs |-> inputs, constants |-> OrEmpty(rule.constants),
   calculated |-> EmptyMap, tables |-> Obj(EmptyMap)]

ValidationRules == OrEmpty(rule.validate)

\* the outcome of the condition of the i-th validation rule
ValidationValue(i) ==
  ConditionalEvaluate(ValidationRules[i].when, CreatedContext,
                      NewSymbolRegistry).v

\* the validation rules whose condition is true
FailedValidations ==
  {i \in 1..Len(ValidationRules) : ValidationValue(i) = Bool(TRUE)}

\* the validation rules whose condition cannot be evaluated
SkippedValidations ==
  {i \in 1..Len(ValidationRules) : IsErr(ValidationValue(i))}

\* evaluate raised the error of a validation rule
RaisedValidation ==
  /\ status = "thrown"
  /\ \E i \in 1..Len(ValidationRules) :
       result = RuleErr(ValidationRules[i].error)

\* evaluate raised for an input
RaisedInput ==
  /\ status = "thrown"
  /\ result \in {RuleErr("Required input not provided"),
                 RuleErr("has wrong type")}

\* C25: the validation rules are evaluated in array order, after the input
\* checks and before the flow: when some condition is true, evaluate raises
\* the error of the first rule whose condition is true and no guard or
\* operation of the flow has run; an input that fails its check raises first
ValidationRaisesFirstTrue ==
  status # "idle" =>
    /\ RaisedValidation =>
         /\ log = << >>
         /\ \A i \in 1..Len(rule.inputs) :
              rule.inputs[i].value.when = Undefined
              /\ rule.inputs[i].value.default = Undefined
                => Has(inputs, rule.inputs[i].name)
    /\ ~RaisedInput /\ FailedValidations # {} =>
         /\ status = "thrown"
         /\ log = << >>
         /\ \E i \in FailedValidations :
              /\ \A j \in FailedValidations : i <= j
              /\ result = RuleErr(ValidationRules[i].error)

\* two rules whose conditions are both true: the error is the first one's
WitnessValidationRaisesFirstTrue ==
  /\ RaisedValidation
  /\ FailedValidations = {1, 2}
  /\ result = RuleErr("Income not allowed")

\* C26: a validation rule whose condition cannot be evaluated is skipped: the
\* rules after it are still evaluated, and when no condition is true the
\* flow runs
UnevaluableValidationIsSkipped ==
  status # "idle" /\ ~RaisedInput /\ SkippedValidations # {} =>
    IF FailedValidations # {}
      THEN /\ status = "thrown"
           /\ \E i \in FailedValidations :
                result = RuleErr(ValidationRules[i].error)
      ELSE /\ status \in {"running", "returned"}
           /\ status = "returned" =>
                log # << >> /\ log[Len(log)].kind = "operation"

\* the first rule could not be evaluated and the second one raised
UnevaluableValidationRaisesNext ==
  /\ RaisedValidation
  /\ SkippedValidations = {1}
  /\ FailedValidations = {2}

\* the only rule could not be evaluated and the flow has run to its end
WitnessUnevaluableValidationIsSkipped ==
  /\ status = "returned"
  /\ Len(ValidationRules) = 1
  /\ SkippedValidations = {1}
  /\ Len(log) = 3
  /\ log[3].kind = "operation"

----------------------------------------------------------------------------
\* a step of evaluate that ran one operation
OperationRan ==
  /\ Len(log') = Len(log) + 1
  /\ log'[Len(log')].kind = "operation"

\* the names other than the target that are calculated before or after
OtherNames(target) ==
  (Keys(context.calculated) \cup Keys(context'.calculated)) \ {target}

\* C27: an operation changes at most calculated[target]: the inputs, the
\* constants, the tables and every other calculated value of the context it
\* returns are those of the context it was given, the caller's inputs are
\* untouched, and an operation that raises leaves the context as it was
OperationsChangeTargetOnly ==
  [][OperationRan =>
       /\ context'.inputs = context.inputs
       /\ context'.constants = context.constants
       /\ context'.tables = context.tables
       /\ \A name \in OtherNames(OperationAt(log'[Len(log')]).target) :
            /\ Has(context'.calculated, name) <=> Has(context.calculated, name)
            /\ Get(context'.calculated, name) = Get(context.calculated, name)
       /\ log'[Len(log')].seen = context.calculated
       /\ inputs' = inputs
       /\ ~log'[Len(log')].ok => context' = context]_vars

\* an operation stored its target next to a value calculated before, which
\* it kept
WitnessOperationsChangeTargetOnly ==
  /\ Len(log) >= 2
  /\ log[1].kind = "operation" /\ log[2].kind = "operation" /\ log[2].ok
  /\ OperationAt(log[1]).target # OperationAt(log[2]).target
  /\ Has(log[2].after, OperationAt(log[1]).target)
  /\ Get(log[2].after, OperationAt(log[1]).target) = log[1].value
  /\ Has(log[2].after, OperationAt(log[2]).target)

----------------------------------------------------------------------------
\* C28: evaluate does not modify the inputs map the caller passed: whether
\* it returns or raises, and whether or not a declared default was applied,
\* the map has the keys and the values it had before the call
CallerInputsUntouched == [][inputs' = inputs]_vars

\* an expression that refers to a name, as a variable or as a function
RECURSIVE Mentions(_, _)
Mentions(expression, name) ==
  CASE expression.type \in {"input_variable", "constant_variable",
                            "calculated_variable"} ->
         expression.name = name
    [] expression.type = "call" ->
         \/ expression.name = name
         \/ \E i \in 1..Len(expression.parameters) :
              Mentions(expression.parameters[i], name)
    [] OTHER -> FALSE

\* the names of the variables of a context
ContextNames(ctx) ==
  Keys(ctx.inputs) \cup Keys(ctx.constants) \cup Keys(ctx.calculated)

Without(m, name) == SelectSeq(m, LAMBDA e : e.name # name)

\* the context without its variables of one name
ContextWithout(ctx, name) ==
  [ctx EXCEPT !.inputs = Without(@, name), !.constants = Without(@, name),
              !.calculated = Without(@, name)]

\* C30: a context variable named like a built-in function affects only the
\* expressions that refer to that name: every other expression evaluates, on
\* the same evaluator, to what it evaluates to without that variable
FunctionNamedVariableIsLocal ==
  \A i \in 1..Len(log) :
    \A name \in ContextNames(log[i].context) :
      IsBuiltinFunction(name)
      /\ Parse(log[i].text).type # "parse_error"
      /\ ~Mentions(Parse(log[i].text), name)
        => log[i].value =
             ExpressionEvaluate(Parse(log[i].text),
                                ContextWithout(log[i].context, name),
                                log[i].before).v

====
